---- MODULE Spec2Model ----
(***************************************************************************)
(* BLE_Server (src/ble_server.cpp) and the Utilities::Notification_Manager *)
(* it uses to turn asynchronous GATTS events into the return value of a    *)
(* blocking call.                                                          *)
(*                                                                         *)
(* Caller threads run profile_add / profile_remove; one serial event       *)
(* context runs event_handler_gatts.  utilities.hpp (Notification_Manager) *)
(* is not part of src/: wait / notify are modelled from spec.md 3, 4.1, 5. *)
(* Accesses to m_profiles are taken as atomic steps.                       *)
(***************************************************************************)
EXTENDS Integers, FiniteSets, Sequences, TLC

\* ------------------------------------------------------------------ bounds
NumThreads == 2
MaxProfileId == 2
MaxInFlight == 1
NumConns == 2
MaxLen == 2
MaxByte == 2
MaxOpen == 2
NumHandles == 2
NumUuids == 1
MaxSmallMtu == 1

Threads == 1 .. NumThreads
ProfileIds == 1 .. MaxProfileId

\* the UUIDs of services and characteristics, and the attribute handles the
\* stack hands out
Uuids == 1 .. NumUuids
Handles == 1 .. NumHandles

\* enum class BLE_Server::OP
OP == {"PROFILE_ADD", "PROFILE_REMOVE", "ADV_START", "ADV_STOP"}

\* std::optional<bool> as returned by wait(); "none" = no value recorded
NULLOPT == "nullopt"
Definite == {"true", "false"}
ToResult(b) == IF b THEN "true" ELSE "false"

VARIABLES
    m_state,            \* BLE_Server::m_state
    m_profiles,         \* BLE_Server::m_profiles (set of registered app ids)
    m_notification_mgr, \* [registry: set of PendingWait, slot: Threads -> result]
    lock,               \* holder of the registry lock, 0 = free
    pc,                 \* position of every caller thread
    cur,                \* the blocking call (its wait) every thread is in, or made last
    wait_result,        \* what the last wait() of the thread returned
    wait_end,           \* history: how that wait() ended
    synced,             \* what the action of the current wait notified synchronously
    hw_reg,             \* app-register requests accepted by the stack, event not yet delivered
    hw_unreg,           \* app-unregister requests accepted, event not yet delivered
    aborted             \* an exception left a task: std::terminate

VARIABLES
    target,             \* the object the caller threads of a run work on
    sem,                \* holder of that object's map semaphore, 0 = free
    arg_blocking,       \* the blocking argument of the call every thread is in, or made last
    returned,           \* what that call of the thread returned
    evt_wait,           \* the event context is inside a blocking wait()
    m_services_uuid,    \* BLE_Profile::m_services_uuid: uuid -> handle of the service
    m_services_handle,  \* BLE_Profile::m_services_handle: handle -> uuid of the service
    m_services_creation,\* BLE_Profile::m_services_creation (its keys)
    hw_create,          \* create-service requests accepted, event not yet delivered
    hw_delete,          \* delete-service requests accepted, event not yet delivered
    m_characteristics_uuid,     \* BLE_Service::m_characteristics_uuid: uuid -> handle
    m_characteristics_handle,   \* BLE_Service::m_characteristics_handle: handle -> uuid
    m_characteristics_creation, \* BLE_Service::m_characteristics_creation (its keys)
    m_status,           \* BLE_Service::m_status
    hw_add_char,        \* add-characteristic requests accepted, event not yet delivered
    hw_start            \* start-service requests accepted, event not yet delivered

profile_vars == <<m_services_uuid, m_services_handle, m_services_creation, hw_create,
                  hw_delete>>

service_vars == <<m_characteristics_uuid, m_characteristics_handle,
                  m_characteristics_creation, m_status, hw_add_char, hw_start>>

owner_vars == <<target, sem, arg_blocking, returned, evt_wait, profile_vars, service_vars>>

VARIABLES
    characteristics,    \* the BLE_Value of every characteristic of one profile, by handle
    services,           \* the BLE_Service objects of one profile, by service handle
    stack               \* requests of these services accepted, event not yet delivered

\* the objects below one profile: its characteristics, and its services with
\* the requests they have in flight
svc_vars == <<services, stack>>

tree_vars == <<characteristics, svc_vars>>

server_vars == <<m_state, m_profiles, m_notification_mgr, lock, pc, cur, wait_result,
                 wait_end, synced, hw_reg, hw_unreg, aborted, owner_vars>>

vars == <<server_vars, tree_vars>>

VARIABLES
    m_value,              \* BLE_Value::m_value
    m_transactions_write, \* BLE_Value::m_transactions_write: conn_id -> buffer
    m_transactions_read   \* BLE_Value::m_transactions_read: conn_id -> [value, offset]

value_vars == <<m_value, m_transactions_write, m_transactions_read>>

VARIABLES
    m_connections,      \* BLE_Server::m_connections: conn_id -> [mtu]
    m_callback_read,    \* BLE_Characteristic::m_callback_read holds a callable
    m_callback_write    \* BLE_Characteristic::m_callback_write holds a callable

char_vars == <<m_connections, m_callback_read, m_callback_write>>

gatt_vars == <<value_vars, char_vars, tree_vars>>

NoCall == [fn |-> "none", id |-> 0]

\* the (key, operation) pair a call waits on
OpOf(c) == IF c.fn = "profile_add" THEN "PROFILE_ADD" ELSE "PROFILE_REMOVE"

\* -------------------------------------------------- Notification_Manager
PendingWait(k, op, t) == [key |-> k, op |-> op, owner |-> t]

\* is a PendingWait registered for (k, op)?
pending(nm, k, op) == \E r \in nm.registry : r.key = k /\ r.op = op

\* a wait() that registers without looking for an outstanding PendingWait
wait_register_unchecked(nm, t, k, op) ==
    [registry |-> nm.registry \cup {PendingWait(k, op, t)},
     slot |-> [nm.slot EXCEPT ![t] = "none"]]

\* a wait() that overwrites the outstanding registration of the pair
wait_register_overwrite(nm, t, k, op) ==
    [registry |-> {r \in nm.registry : ~(r.key = k /\ r.op = op)}
                      \cup {PendingWait(k, op, t)},
     slot |-> [nm.slot EXCEPT ![t] = "none"]]

\* wait(), first half: register a PendingWait with a fresh one-shot slot,
\* unless one is outstanding for the pair (then the registry is left alone)
wait_register(nm, t, k, op) ==
    IF pending(nm, k, op)
    THEN nm
    ELSE [registry |-> nm.registry \cup {PendingWait(k, op, t)},
          slot |-> [nm.slot EXCEPT ![t] = "none"]]

\* a wait() that returns false on rejection and leaves its registration behind
wait_cancel_forgotten(nm, t) == nm

\* wait(): the action reported rejection: the registration of t is cancelled
\* and its PendingWait ends, with whatever an earlier notify put in its slot
wait_cancel(nm, t) ==
    [registry |-> {r \in nm.registry : r.owner # t},
     slot |-> [nm.slot EXCEPT ![t] = "none"]]

\* a wait() that returns empty on timeout and leaves its PendingWait behind
wait_expire_forgotten(nm, t) == nm

\* wait(): the timeout elapsed: the PendingWait of t is removed
wait_expire(nm, t) ==
    [nm EXCEPT !.registry = {r \in nm.registry : r.owner # t}]

\* a wait() that keeps the registry lock until it returns
wait_unlock_held(t) == t

\* wait(): the registry lock is released when the critical section ends, before
\* the action runs and before the caller suspends
wait_unlock(t) == 0

\* wait() returns a delivered value: the PendingWait (already taken out of the
\* registry by the notify) ends with its slot
wait_destroy(nm, t) ==
    [nm EXCEPT !.slot[t] = "none"]

\* a notify that delivers and leaves the PendingWait registered
notify_keep(nm, k, op, x) ==
    [registry |-> nm.registry,
     slot |-> [t \in Threads |->
                 IF \E r \in nm.registry : r.owner = t /\ r.key = k /\ r.op = op
                 THEN ToResult(x) ELSE nm.slot[t]]]

\* notify(key, operation, success)
notify(nm, k, op, x) ==
    [registry |-> {r \in nm.registry : ~(r.key = k /\ r.op = op)},
     slot |-> [t \in Threads |->
                 IF \E r \in nm.registry : r.owner = t /\ r.key = k /\ r.op = op
                 THEN ToResult(x) ELSE nm.slot[t]]]

\* notify(operation, success): the broadcast form
notify_all(nm, op, x) ==
    [registry |-> {r \in nm.registry : r.op # op},
     slot |-> [t \in Threads |->
                 IF \E r \in nm.registry : r.owner = t /\ r.op = op
                 THEN ToResult(x) ELSE nm.slot[t]]]

\* ------------------------------------------------------------ BLE_Server
\* the state after construction, whatever object the threads work on
Constructed ==
    /\ m_state = "STOPPED"
    /\ m_profiles = {}
    /\ m_notification_mgr = [registry |-> {}, slot |-> [t \in Threads |-> "none"]]
    /\ lock = 0
    /\ pc = [t \in Threads |-> "idle"]
    /\ cur = [t \in Threads |-> NoCall]
    /\ wait_result = [t \in Threads |-> "none"]
    /\ wait_end = [t \in Threads |-> "none"]
    /\ synced = [t \in Threads |-> "none"]
    /\ hw_reg = [i \in ProfileIds |-> 0]
    /\ hw_unreg = [i \in ProfileIds |-> 0]
    /\ aborted = FALSE
    /\ m_value = <<>>
    /\ m_transactions_write = <<>>
    /\ m_transactions_read = <<>>
    /\ m_connections = <<>>
    /\ m_callback_read = FALSE
    /\ m_callback_write = FALSE
    /\ sem = 0
    /\ arg_blocking = [t \in Threads |-> FALSE]
    /\ returned = [t \in Threads |-> "none"]
    /\ evt_wait = FALSE
    /\ m_services_uuid = <<>>
    /\ m_services_handle = <<>>
    /\ m_services_creation = {}
    /\ hw_create = [u \in Uuids |-> 0]
    /\ hw_delete = [h \in Handles |-> 0]
    /\ m_characteristics_uuid = <<>>
    /\ m_characteristics_handle = <<>>
    /\ m_characteristics_creation = {}
    /\ m_status = "STOPED"
    /\ hw_add_char = [u \in Uuids |-> 0]
    /\ hw_start = 0
    /\ characteristics =
          [h \in Handles |->
              [m_value |-> <<>>, m_transactions_write |-> <<>>, m_transactions_read |-> <<>>]]
    /\ services =
          [h \in Handles |->
              [uuid |-> h, m_status |-> "STOPED",
               m_characteristics_uuid |-> <<>>, m_characteristics_handle |-> <<>>,
               m_characteristics_creation |-> {},
               m_notification_mgr |->
                   [registry |-> {}, slot |-> [t \in Threads |-> "none"]]]]
    /\ stack = [start |-> [h \in Handles |-> 1],
                add_char |-> [h \in Handles |-> [u \in Uuids |-> 0]]]

Init ==
    /\ target = "server"
    /\ Constructed

\* what the stack answers to a request: rejected by the request function,
\* accepted (event delivered later by the event context), or accepted with the
\* completion event delivered, and handled by the event context, before the
\* request function returns to the caller (for a call that does not wait this
\* is the same as accepted followed by the event)
Outcomes == {"reject", "accept", "sync_ok", "sync_fail"}

Inc(f, i) == [f EXCEPT ![i] = @ + 1]
Dec(f, i) == [f EXCEPT ![i] = @ - 1]

\* handle_profile_add notifying under the tag of the other operation
handle_profile_add_wrong_op(app_id, ok) ==
    /\ m_profiles' = IF ok THEN m_profiles \cup {app_id} ELSE m_profiles
    /\ m_notification_mgr' = notify(m_notification_mgr, app_id, "PROFILE_REMOVE", ok)

\* handle_profile_add using the broadcast form
handle_profile_add_broadcast(app_id, ok) ==
    /\ m_profiles' = IF ok THEN m_profiles \cup {app_id} ELSE m_profiles
    /\ m_notification_mgr' = notify_all(m_notification_mgr, "PROFILE_ADD", ok)

\* BLE_Server::handle_profile_add
handle_profile_add(app_id, ok) ==
    /\ m_profiles' = IF ok THEN m_profiles \cup {app_id} ELSE m_profiles
    /\ m_notification_mgr' = notify(m_notification_mgr, app_id, "PROFILE_ADD", ok)

\* the unregistration event notifying only the profile it names
handle_unreg_keyed(gatts_if) ==
    /\ m_notification_mgr' = notify(m_notification_mgr, gatts_if, "PROFILE_REMOVE", TRUE)
    /\ UNCHANGED m_profiles

\* BLE_Server::event_handler_gatts, case ESP_GATTS_UNREG_EVT
handle_unreg(gatts_if) ==
    /\ m_notification_mgr' = notify_all(m_notification_mgr, "PROFILE_REMOVE", TRUE)
    /\ UNCHANGED m_profiles

\* BLE_Server::event_handler_gatts for the two events that complete a call
event_handler_gatts(event, app_id, ok) ==
    IF event = "ESP_GATTS_REG_EVT"
    THEN handle_profile_add(app_id, ok)
    ELSE handle_unreg(app_id)

\* the request a call issues: creation_function of profile_add
\* (esp_ble_gatts_app_register) or deletion_function of profile_remove
\* (esp_ble_gatts_app_unregister); the stack holds at most MaxInFlight
\* requests of a kind per profile and rejects the next
request(c, out) ==
    IF c.fn = "profile_add"
    THEN /\ hw_reg' = IF out = "accept" THEN Inc(hw_reg, c.id) ELSE hw_reg
         /\ out = "accept" => hw_reg[c.id] < MaxInFlight
         /\ UNCHANGED hw_unreg
    ELSE /\ hw_unreg' = IF out = "accept" THEN Inc(hw_unreg, c.id) ELSE hw_unreg
         /\ out = "accept" => hw_unreg[c.id] < MaxInFlight
         /\ UNCHANGED hw_reg

EventOf(c) == IF c.fn = "profile_add" THEN "ESP_GATTS_REG_EVT" ELSE "ESP_GATTS_UNREG_EVT"

\* deletion_function reads m_profiles.at(profile_id): std::out_of_range when
\* the profile was erased since profile_remove checked it
throws(c) == c.fn = "profile_remove" /\ c.id \notin m_profiles

\* wait() entered: the caller takes the registry lock (and waits for it while
\* another thread holds it)
wait_lock(t) ==
    /\ lock = 0
    /\ lock' = t
    /\ pc' = [pc EXCEPT ![t] = "wait_locked"]

\* the statements of profile_add / profile_remove that follow wait():
\* profile_add returns the result (false when empty), profile_remove erases
\* the profile whatever the result
Finish(t, res, how) ==
    /\ pc' = [pc EXCEPT ![t] = "idle"]
    /\ wait_result' = [wait_result EXCEPT ![t] = res]
    /\ wait_end' = [wait_end EXCEPT ![t] = how]
    /\ m_profiles' = IF cur[t].fn = "profile_add"
                     THEN m_profiles ELSE m_profiles \ {cur[t].id}

\* BLE_Server::profile_add up to the call of wait()
profile_add(t, profile_id, blocking) ==
    /\ ~aborted
    /\ target = "server"
    /\ UNCHANGED <<gatt_vars, owner_vars>>
    /\ pc[t] = "idle"
    /\ UNCHANGED <<m_state, aborted>>
    /\ IF m_state = "STOPPED" \/ profile_id \in m_profiles
       THEN UNCHANGED <<lock, m_profiles, m_notification_mgr, pc, cur, wait_result,
                        wait_end, synced, hw_reg, hw_unreg>>
       ELSE IF ~blocking
       THEN \E out \in {"reject", "accept"} :
              /\ request([fn |-> "profile_add", id |-> profile_id], out)
              /\ UNCHANGED <<m_profiles, m_notification_mgr, lock, pc, cur, wait_result,
                             wait_end, synced>>
       ELSE /\ wait_lock(t)
            /\ cur' = [cur EXCEPT ![t] = [fn |-> "profile_add", id |-> profile_id]]
            /\ wait_result' = [wait_result EXCEPT ![t] = "none"]
            /\ wait_end' = [wait_end EXCEPT ![t] = "none"]
            /\ synced' = [synced EXCEPT ![t] = "none"]
            /\ UNCHANGED <<m_profiles, m_notification_mgr, hw_reg, hw_unreg>>

\* BLE_Server::profile_remove up to the call of wait()
profile_remove(t, profile_id, blocking) ==
    /\ ~aborted
    /\ target = "server"
    /\ UNCHANGED <<gatt_vars, owner_vars>>
    /\ pc[t] = "idle"
    /\ UNCHANGED <<m_state, aborted>>
    /\ IF profile_id \notin m_profiles
       THEN UNCHANGED <<lock, m_profiles, m_notification_mgr, pc, cur, wait_result,
                        wait_end, synced, hw_reg, hw_unreg>>
       ELSE IF ~blocking
       THEN \E out \in {"reject", "accept"} :
              /\ request([fn |-> "profile_remove", id |-> profile_id], out)
              /\ m_profiles' = m_profiles \ {profile_id}
              /\ UNCHANGED <<m_notification_mgr, lock, pc, cur, wait_result, wait_end,
                             synced>>
       ELSE /\ wait_lock(t)
            /\ cur' = [cur EXCEPT ![t] = [fn |-> "profile_remove", id |-> profile_id]]
            /\ wait_result' = [wait_result EXCEPT ![t] = "none"]
            /\ wait_end' = [wait_end EXCEPT ![t] = "none"]
            /\ synced' = [synced EXCEPT ![t] = "none"]
            /\ UNCHANGED <<m_profiles, m_notification_mgr, hw_reg, hw_unreg>>

\* wait(): under the lock, fail fast on a duplicate or register; release
WaitRegister(t) ==
    /\ ~aborted
    /\ target = "server"
    /\ UNCHANGED <<gatt_vars, owner_vars>>
    /\ pc[t] = "wait_locked"
    /\ lock = t
    /\ lock' = wait_unlock(t)
    /\ m_notification_mgr' = wait_register(m_notification_mgr, t, cur[t].id, OpOf(cur[t]))
    /\ IF pending(m_notification_mgr, cur[t].id, OpOf(cur[t]))
       THEN Finish(t, NULLOPT, "duplicate")
       ELSE /\ pc' = [pc EXCEPT ![t] = "wait_action"]
            /\ UNCHANGED <<m_profiles, wait_result, wait_end>>
    /\ UNCHANGED <<m_state, cur, synced, hw_reg, hw_unreg, aborted>>

\* history: the value x the action notified for the pair of the wait, as
\* "dropped_x" when an earlier notify had already completed the wait
SyncedAs(t, x) ==
    IF \E r \in m_notification_mgr.registry : r.owner = t
    THEN ToResult(x)
    ELSE IF x THEN "dropped_true" ELSE "dropped_false"

\* wait(): run the action; on rejection cancel the registration and return
\* false, otherwise suspend
WaitAction(t) ==
    /\ ~aborted
    /\ target = "server"
    /\ UNCHANGED <<gatt_vars, owner_vars>>
    /\ pc[t] = "wait_action"
    /\ UNCHANGED <<m_state, cur, lock>>
    /\ IF throws(cur[t])
       THEN /\ aborted' = TRUE
            /\ UNCHANGED <<m_profiles, m_notification_mgr, pc, wait_result, wait_end,
                           synced, hw_reg, hw_unreg>>
       ELSE /\ UNCHANGED aborted
            /\ \E out \in Outcomes :
                 /\ request(cur[t], out)
                 /\ CASE out = "reject" ->
                           /\ lock = 0
                           /\ m_notification_mgr' = wait_cancel(m_notification_mgr, t)
                           /\ Finish(t, "false", "rejected")
                           /\ UNCHANGED synced
                      [] out = "accept" ->
                           /\ pc' = [pc EXCEPT ![t] = "wait_block"]
                           /\ UNCHANGED <<m_profiles, m_notification_mgr, wait_result,
                                          wait_end, synced>>
                      [] OTHER ->
                           /\ lock = 0
                           /\ event_handler_gatts(EventOf(cur[t]), cur[t].id, out = "sync_ok")
                           /\ synced' = [synced EXCEPT ![t] =
                                  SyncedAs(t, cur[t].fn = "profile_add" => out = "sync_ok")]
                           /\ pc' = [pc EXCEPT ![t] = "wait_block"]
                           /\ UNCHANGED <<wait_result, wait_end>>

\* wait(): a notify filled the slot: return its value
WaitWake(t) ==
    /\ ~aborted
    /\ target = "server"
    /\ UNCHANGED <<gatt_vars, owner_vars>>
    /\ pc[t] = "wait_block"
    /\ m_notification_mgr.slot[t] # "none"
    /\ Finish(t, m_notification_mgr.slot[t], "notified")
    /\ m_notification_mgr' = wait_destroy(m_notification_mgr, t)
    /\ UNCHANGED <<m_state, lock, cur, synced, hw_reg, hw_unreg, aborted>>

\* wait(): the bounded timeout elapsed with the slot still empty: remove the
\* PendingWait and return empty
WaitTimeout(t) ==
    /\ ~aborted
    /\ target = "server"
    /\ UNCHANGED <<gatt_vars, owner_vars>>
    /\ pc[t] = "wait_block"
    /\ m_notification_mgr.slot[t] = "none"
    /\ lock = 0
    /\ m_notification_mgr' = wait_expire(m_notification_mgr, t)
    /\ Finish(t, NULLOPT, "timeout")
    /\ UNCHANGED <<m_state, lock, cur, synced, hw_reg, hw_unreg, aborted>>

\* the event context delivers ESP_GATTS_REG_EVT for an accepted request
EvtReg(app_id, ok) ==
    /\ ~aborted
    /\ target = "server"
    /\ UNCHANGED <<gatt_vars, owner_vars>>
    /\ hw_reg[app_id] > 0
    /\ lock = 0
    /\ hw_reg' = Dec(hw_reg, app_id)
    /\ event_handler_gatts("ESP_GATTS_REG_EVT", app_id, ok)
    /\ UNCHANGED <<m_state, lock, pc, cur, wait_result, wait_end, synced, hw_unreg,
                   aborted>>

\* the event context delivers ESP_GATTS_UNREG_EVT for an accepted request
EvtUnreg(app_id) ==
    /\ ~aborted
    /\ target = "server"
    /\ UNCHANGED <<gatt_vars, owner_vars>>
    /\ hw_unreg[app_id] > 0
    /\ lock = 0
    /\ hw_unreg' = Dec(hw_unreg, app_id)
    /\ event_handler_gatts("ESP_GATTS_UNREG_EVT", app_id, TRUE)
    /\ UNCHANGED <<m_state, lock, pc, cur, wait_result, wait_end, synced, hw_reg,
                   aborted>>

\* BLE_Server::server_start, every esp_* call succeeding
server_start ==
    /\ ~aborted
    /\ target = "server"
    /\ UNCHANGED <<gatt_vars, owner_vars>>
    /\ m_state = "STOPPED"
    /\ m_state' = "IDLE"
    /\ UNCHANGED <<m_profiles, m_notification_mgr, lock, pc, cur, wait_result, wait_end,
                   synced, hw_reg, hw_unreg, aborted>>

Next ==
    \/ server_start
    \/ \E t \in Threads, i \in ProfileIds, b \in BOOLEAN : profile_add(t, i, b)
    \/ \E t \in Threads, i \in ProfileIds, b \in BOOLEAN : profile_remove(t, i, b)
    \/ \E t \in Threads : WaitRegister(t)
    \/ \E t \in Threads : WaitAction(t)
    \/ \E t \in Threads : WaitWake(t)
    \/ \E t \in Threads : WaitTimeout(t)
    \/ \E i \in ProfileIds, ok \in BOOLEAN : EvtReg(i, ok)
    \/ \E i \in ProfileIds : EvtUnreg(i)

Spec == Init /\ [][Next]_vars

\* ---------------------------------------------------------------- claims
Slot(t) == m_notification_mgr.slot[t]
Registry == m_notification_mgr.registry
Owned(t) == {r \in Registry : r.owner = t}
Key(t) == cur[t].id
Op(t) == OpOf(cur[t])
Returned(t) == pc[t] = "idle" /\ wait_end[t] # "none"
InFlight(t) == IF cur[t].fn = "profile_add" THEN hw_reg[Key(t)] ELSE hw_unreg[Key(t)]

\* C1 as stated: a wait whose action notified true for the wait's own pair
\* before returning returns true.
C1_SyncNotifyReturnsTrue ==
    \A t \in Threads :
        (pc[t] = "idle" /\ synced[t] \in {"true", "dropped_true"}) =>
            wait_result[t] = "true"

\* C1 amended: the PendingWait is registered before the action runs, so a
\* notify(k, op, true) made by the action before it returns is delivered to
\* that wait, which then cannot time out and returns true, unless an earlier
\* notify for the pair had already completed the wait (one shot: the first
\* notify after the registration decides).
C1_SyncNotifyObserved ==
    \A t \in Threads :
        /\ synced[t] = "true" =>
              \/ pc[t] = "wait_block" /\ Slot(t) = "true"
              \/ pc[t] = "idle" /\ wait_end[t] = "notified" /\ wait_result[t] = "true"
        /\ synced[t] \in {"dropped_true", "dropped_false"} =>
              \/ pc[t] = "wait_block" /\ Slot(t) \in Definite
              \/ pc[t] = "idle" /\ wait_end[t] = "notified"

C1_Witness ==
    \E t \in Threads :
        pc[t] = "idle" /\ synced[t] = "true" /\ wait_result[t] = "true"

\* C2 as stated: once a wait on (k, op) returned true or false, every later
\* notify(k, op, x) leaves the manager unchanged.
C2_LaterNotifyNoEffect ==
    \A t \in Threads :
        (Returned(t) /\ wait_result[t] \in Definite) =>
            \A x \in BOOLEAN :
                notify(m_notification_mgr, Key(t), Op(t), x) = m_notification_mgr

\* C2 amended: once a wait on (k, op) returned true or false its PendingWait
\* is gone, so a later notify(k, op, x) delivers nothing to that wait; and it
\* changes nothing at all unless another wait for the pair is registered.
C2_NoDoubleDelivery ==
    \A t \in Threads :
        (Returned(t) /\ wait_result[t] \in Definite) =>
            /\ Owned(t) = {}
            /\ \A x \in BOOLEAN :
                 LET n == notify(m_notification_mgr, Key(t), Op(t), x) IN
                 /\ n.slot[t] = "none"
                 /\ ~pending(m_notification_mgr, Key(t), Op(t)) => n = m_notification_mgr

C2_Witness ==
    \E t \in Threads :
        /\ Returned(t) /\ wait_end[t] = "notified"
        /\ InFlight(t) > 0
        /\ ~pending(m_notification_mgr, Key(t), Op(t))

\* C3: a wait on a pair that has a PendingWait outstanding returns empty in
\* its registration step, without suspending, and leaves the manager as it
\* was: the first waiter stays registered and the next notify for the pair
\* delivers to it.
C3_DuplicateFailsFast ==
    [][\A t \in Threads :
          ( /\ pc[t] = "wait_locked"
            /\ pc'[t] # "wait_locked"
            /\ pending(m_notification_mgr, Key(t), Op(t)) ) =>
              /\ pc'[t] = "idle"
              /\ wait_result'[t] = NULLOPT
              /\ m_notification_mgr' = m_notification_mgr
              /\ \A r \in Registry :
                   (r.key = Key(t) /\ r.op = Op(t)) =>
                       /\ r.owner # t
                       /\ \A x \in BOOLEAN :
                            notify(m_notification_mgr', r.key, r.op, x).slot[r.owner]
                                = ToResult(x)]_vars

C3_Witness ==
    \E t, u \in Threads :
        /\ t # u
        /\ Returned(t) /\ wait_end[t] = "duplicate" /\ wait_result[t] = NULLOPT
        /\ pc[u] = "wait_block" /\ Slot(u) = "none"
        /\ PendingWait(Key(t), Op(t), u) \in Registry

\* C4: the registry never holds two PendingWaits for one (key, operation).
C4_AtMostOnePending ==
    \A r1, r2 \in Registry :
        (r1.key = r2.key /\ r1.op = r2.op) => r1 = r2

C4_Witness ==
    /\ Cardinality(Registry) = 2
    /\ \E r1, r2 \in Registry : r1.op = r2.op /\ r1.key # r2.key

\* C5: a wait whose action was rejected has returned false and owns no
\* PendingWait; while no other wait is registered for its pair, notify on the
\* pair changes nothing.
C5_RejectCancels ==
    \A t \in Threads :
        wait_end[t] = "rejected" =>
            /\ pc[t] = "idle"
            /\ wait_result[t] = "false"
            /\ Owned(t) = {}
            /\ Slot(t) = "none"
            /\ ~pending(m_notification_mgr, Key(t), Op(t)) =>
                 \A x \in BOOLEAN :
                     notify(m_notification_mgr, Key(t), Op(t), x) = m_notification_mgr

C5_Witness ==
    \E t \in Threads :
        /\ wait_end[t] = "rejected"
        /\ ~pending(m_notification_mgr, Key(t), Op(t))
        /\ InFlight(t) > 0

\* C6: a wait that timed out has returned empty and owns no PendingWait; while
\* no other wait is registered for its pair, a late notify on the pair changes
\* nothing; and every thread that is about to register starts from an empty
\* slot, so no earlier notify completes a later wait.
C6_TimeoutRemoves ==
    /\ \A t \in Threads :
         wait_end[t] = "timeout" =>
            /\ pc[t] = "idle"
            /\ wait_result[t] = NULLOPT
            /\ Owned(t) = {}
            /\ ~pending(m_notification_mgr, Key(t), Op(t)) =>
                 \A x \in BOOLEAN :
                     notify(m_notification_mgr, Key(t), Op(t), x) = m_notification_mgr
    /\ \A t \in Threads :
         pc[t] \in {"idle", "wait_locked"} => Slot(t) = "none" /\ Owned(t) = {}

\* the completion event of the timed-out wait has been delivered since
C6_Witness ==
    \E t \in Threads :
        /\ wait_end[t] = "timeout"
        /\ cur[t].fn = "profile_add"
        /\ hw_reg[Key(t)] = 0
        /\ ~pending(m_notification_mgr, Key(t), Op(t))

\* the scheduling the waits rely on: a thread that can run does run, the
\* registry lock is handed to every thread that asks for it (held only for the
\* registration step), and the timeout of a suspended wait elapses
FairSpec ==
    /\ Spec
    /\ \A t \in Threads :
         /\ WF_vars(WaitRegister(t))
         /\ SF_vars(WaitAction(t))
         /\ WF_vars(WaitWake(t))
         /\ SF_vars(WaitTimeout(t))

\* C7: every call of wait() eventually returns, notified or not.
C7_EveryWaitReturns ==
    \A t \in Threads : (pc[t] # "idle") ~> (pc[t] = "idle")

\* C7, the part about the results: a wait that returned gave the notified
\* boolean, false on rejection, empty on timeout or duplicate, and empty is
\* not false.
C7_ResultsDistinct ==
    /\ NULLOPT \notin Definite
    /\ \A t \in Threads :
         Returned(t) =>
            /\ wait_end[t] = "notified" => wait_result[t] \in Definite
            /\ wait_end[t] = "rejected" => wait_result[t] = "false"
            /\ wait_end[t] \in {"timeout", "duplicate"} => wait_result[t] = NULLOPT

\* C7: a wait whose action did not throw does return.
C7_ReturnsUnlessAborted ==
    \A t \in Threads : (pc[t] # "idle") ~> (pc[t] = "idle" \/ aborted)

\* a step that runs notify(i, PROFILE_ADD, x): the registration event for i,
\* or the action of a wait on it completing before it returns
KeyedNotifyStep(i) ==
    \/ hw_reg'[i] < hw_reg[i]
    \/ \E t \in Threads :
         /\ pc[t] = "wait_action" /\ cur[t] = [fn |-> "profile_add", id |-> i]
         /\ synced'[t] # "none"

\* C8: notify(k, op, x) removes and completes only the PendingWait of exactly
\* (k, op); with none registered it changes nothing; PendingWaits of any other
\* key or operation stay registered with their slots untouched.
C8_KeyedNotifyExactPair ==
    [][\A i \in ProfileIds :
          KeyedNotifyStep(i) =>
             LET hit == {r \in Registry : r.key = i /\ r.op = "PROFILE_ADD"} IN
             /\ m_notification_mgr'.registry = Registry \ hit
             /\ \A t \in Threads :
                  IF \E r \in hit : r.owner = t
                  THEN m_notification_mgr'.slot[t] \in Definite
                  ELSE m_notification_mgr'.slot[t] = Slot(t)
             /\ hit = {} => m_notification_mgr' = m_notification_mgr]_vars

\* one wait completed by its notify while a wait on another key stays pending
C8_Witness ==
    \E t, u \in Threads :
        /\ pc[t] = "wait_block" /\ cur[t].fn = "profile_add" /\ Slot(t) \in Definite
        /\ pc[u] = "wait_block" /\ cur[u].fn = "profile_add" /\ Slot(u) = "none"
        /\ Key(t) # Key(u)
        /\ PendingWait(Key(u), "PROFILE_ADD", u) \in Registry

\* a step that runs notify(PROFILE_REMOVE, true): an unregistration event, or
\* the action of a wait for a removal completing before it returns
BroadcastNotifyStep ==
    \/ \E i \in ProfileIds : hw_unreg'[i] < hw_unreg[i]
    \/ \E t \in Threads :
         /\ pc[t] = "wait_action" /\ cur[t].fn = "profile_remove"
         /\ synced'[t] # "none"

\* C9: the broadcast notify(op, x) removes every PendingWait registered under
\* op, whatever its key, and delivers x to each; PendingWaits of another
\* operation stay registered with their slots untouched.
C9_BroadcastWakesAll ==
    [][BroadcastNotifyStep =>
          LET hit == {r \in Registry : r.op = "PROFILE_REMOVE"} IN
          /\ m_notification_mgr'.registry = Registry \ hit
          /\ \A t \in Threads :
               IF \E r \in hit : r.owner = t
               THEN m_notification_mgr'.slot[t] = "true"
               ELSE m_notification_mgr'.slot[t] = Slot(t)]_vars

\* two removals of different profiles both completed with true although the
\* unregistration event of one of them is still to come
C9_Witness ==
    \E t, u \in Threads :
        /\ t # u /\ Key(t) # Key(u)
        /\ cur[t].fn = "profile_remove" /\ cur[u].fn = "profile_remove"
        /\ pc[t] = "wait_block" /\ pc[u] = "wait_block"
        /\ synced[t] = "none" /\ synced[u] = "none"
        /\ Slot(t) = "true" /\ Slot(u) = "true"
        /\ hw_unreg[Key(t)] + hw_unreg[Key(u)] = 1

\* C10: the registry lock is held only by a thread inside the registration
\* step of wait(), never by one running its action or suspended: a notify or
\* another registration waits for no blocked caller.
C10_LockNotHeldWhileBlocked ==
    /\ lock # 0 => pc[lock] = "wait_locked"
    /\ \A t \in Threads : pc[t] \in {"wait_action", "wait_block"} => lock # t

\* a wait of another thread holds the lock while a caller is suspended
C10_Witness ==
    \E t, u \in Threads :
        /\ t # u
        /\ pc[t] = "wait_block" /\ Slot(t) = "none" /\ Owned(t) # {}
        /\ lock = u /\ pc[u] = "wait_locked"

\* ------------------------------------------------------------- BLE_Value
\* connection ids are uint16_t; the largest one is among those used
UINT16_MOD == 65536
ConnIds == (1 .. NumConns - 1) \cup {UINT16_MOD - 1}
Bytes == 1 .. MaxByte
Data == UNION {[1 .. k -> Bytes] : k \in 0 .. MaxLen}

Min(a, b) == IF a < b THEN a ELSE b

\* std::unordered_map
count(map, k) == IF k \in DOMAIN map THEN 1 ELSE 0
insert_or_assign(map, k, x) == [j \in DOMAIN map \cup {k} |-> IF j = k THEN x ELSE map[j]]
erase(map, k) == [j \in DOMAIN map \ {k} |-> map[j]]

\* the BLE_Value object in the current state
Value ==
    [m_value |-> m_value,
     m_transactions_write |-> m_transactions_write,
     m_transactions_read |-> m_transactions_read]

\* an operation gives the object it leaves and the value it returns
Returns(v, r) == [v |-> v, ret |-> r]

\* BLE_Value::to_raw
to_raw(v) == v.m_value

\* BLE_Value::value_set, x the bytes the serializer gives
value_set(v, x) == Returns([v EXCEPT !.m_value = x], "void")

\* a start that inserts only when nothing is open and keeps an unfinished buffer
transaction_write_start_insert(v, connection_id) ==
    IF count(v.m_transactions_write, connection_id) = 0
    THEN Returns([v EXCEPT !.m_transactions_write =
                      insert_or_assign(@, connection_id, <<>>)], "void")
    ELSE Returns(v, "void")

\* BLE_Value::transaction_write_start
transaction_write_start(v, connection_id) ==
    Returns([v EXCEPT !.m_transactions_write =
                 insert_or_assign(@, connection_id, <<>>)], "void")

\* an add that puts the fragment in front of the buffer
transaction_write_add_prepend(v, connection_id, data) ==
    IF count(v.m_transactions_write, connection_id) = 0
    THEN Returns(v, FALSE)
    ELSE Returns([v EXCEPT !.m_transactions_write[connection_id] = data \o @], TRUE)

\* an add that reaches the buffer through operator[] without looking for it
transaction_write_add_create(v, connection_id, data) ==
    Returns([v EXCEPT !.m_transactions_write =
                 insert_or_assign(@, connection_id,
                     (IF connection_id \in DOMAIN @ THEN @[connection_id] ELSE <<>>) \o data)],
            TRUE)

\* transaction_write_add that applies the fragment to the value at once
transaction_write_add_through(v, connection_id, data) ==
    IF count(v.m_transactions_write, connection_id) = 0
    THEN Returns(v, FALSE)
    ELSE Returns([v EXCEPT !.m_transactions_write[connection_id] = @ \o data,
                           !.m_value = v.m_transactions_write[connection_id] \o data], TRUE)

\* BLE_Value::transaction_write_add
transaction_write_add(v, connection_id, data) ==
    IF count(v.m_transactions_write, connection_id) = 0
    THEN Returns(v, FALSE)
    ELSE Returns([v EXCEPT !.m_transactions_write[connection_id] = @ \o data], TRUE)

\* a commit that closes the write transactions of every connection
transaction_write_commit_clear(v, connection_id) ==
    IF count(v.m_transactions_write, connection_id) = 0
    THEN Returns(v, FALSE)
    ELSE Returns([v EXCEPT !.m_value = v.m_transactions_write[connection_id],
                           !.m_transactions_write = <<>>], TRUE)

\* BLE_Value::transaction_write_commit
transaction_write_commit(v, connection_id) ==
    IF count(v.m_transactions_write, connection_id) = 0
    THEN Returns(v, FALSE)
    ELSE Returns([v EXCEPT !.m_value = v.m_transactions_write[connection_id],
                           !.m_transactions_write = erase(@, connection_id)], TRUE)

\* the int16_t parameter of transaction_write_ongoing receives a uint16_t id
\* and is converted back to the key type of the map
to_int16(x) == IF x >= UINT16_MOD \div 2 THEN x - UINT16_MOD ELSE x
to_uint16(x) == x % UINT16_MOD

\* an ongoing that looks the signed id up without converting it back
transaction_write_ongoing_signed(v, connection_id) ==
    Returns(v, count(v.m_transactions_write, to_int16(connection_id)) # 0)

\* BLE_Value::transaction_write_ongoing
transaction_write_ongoing(v, connection_id) ==
    Returns(v, count(v.m_transactions_write, to_uint16(to_int16(connection_id))) # 0)

\* a read start that keeps a read transaction that is already open
transaction_read_start_keep(v, connection_id) ==
    IF count(v.m_transactions_read, connection_id) # 0
    THEN Returns(v, "void")
    ELSE Returns([v EXCEPT !.m_transactions_read =
                      insert_or_assign(@, connection_id,
                                       [value |-> v.m_value, offset |-> 0])], "void")

\* BLE_Value::transaction_read_start
transaction_read_start(v, connection_id) ==
    Returns([v EXCEPT !.m_transactions_read =
                 insert_or_assign(@, connection_id, [value |-> v.m_value, offset |-> 0])],
            "void")

\* std::min(max_length, value.size() - offset) in size_t: the difference of an
\* offset beyond the size wraps to a number above every max_length
read_length(max_length, size, offset) ==
    IF offset <= size THEN Min(max_length, size - offset) ELSE max_length

\* an advance that returns its slice and leaves the cursor where it was
transaction_read_advance_stuck(v, connection_id, max_length) ==
    IF count(v.m_transactions_read, connection_id) = 0
    THEN Returns(v, <<>>)
    ELSE LET transaction == v.m_transactions_read[connection_id]
             length == read_length(max_length, Len(transaction.value), transaction.offset)
         IN  Returns(v, SubSeq(transaction.value, transaction.offset + 1,
                               transaction.offset + length))

\* an advance that slices the current value instead of the snapshot
transaction_read_advance_live(v, connection_id, max_length) ==
    IF count(v.m_transactions_read, connection_id) = 0
    THEN Returns(v, <<>>)
    ELSE LET transaction == v.m_transactions_read[connection_id]
             length == read_length(max_length, Len(v.m_value), transaction.offset)
         IN  IF length = 0
             THEN Returns(v, <<>>)
             ELSE Returns([v EXCEPT !.m_transactions_read[connection_id].offset = @ + length],
                          SubSeq(v.m_value, transaction.offset + 1,
                                 transaction.offset + length))

\* an advance that moves the cursor by max_length, whatever it returned
transaction_read_advance_overshoot(v, connection_id, max_length) ==
    IF count(v.m_transactions_read, connection_id) = 0
    THEN Returns(v, <<>>)
    ELSE LET transaction == v.m_transactions_read[connection_id]
             length == read_length(max_length, Len(transaction.value), transaction.offset)
         IN  IF length = 0
             THEN Returns(v, <<>>)
             ELSE Returns([v EXCEPT !.m_transactions_read[connection_id].offset =
                               @ + max_length],
                          SubSeq(transaction.value, transaction.offset + 1,
                                 transaction.offset + length))

\* BLE_Value::transaction_read_advance
transaction_read_advance(v, connection_id, max_length) ==
    IF count(v.m_transactions_read, connection_id) = 0
    THEN Returns(v, <<>>)
    ELSE LET transaction == v.m_transactions_read[connection_id]
             length == read_length(max_length, Len(transaction.value), transaction.offset)
         IN  IF length = 0
             THEN Returns(v, <<>>)
             ELSE Returns([v EXCEPT !.m_transactions_read[connection_id].offset = @ + length],
                          SubSeq(transaction.value, transaction.offset + 1,
                                 transaction.offset + length))

\* an abort that leaves the read transaction open
transaction_read_abort_keep(v, connection_id) == Returns(v, "void")

\* BLE_Value::transaction_read_abort
transaction_read_abort(v, connection_id) ==
    IF count(v.m_transactions_read, connection_id) = 0
    THEN Returns(v, "void")
    ELSE Returns([v EXCEPT !.m_transactions_read = erase(@, connection_id)], "void")

\* an abort that leaves the write transaction open
transaction_write_abort_keep(v, connection_id) == Returns(v, "void")

\* BLE_Value::transaction_write_abort
transaction_write_abort(v, connection_id) ==
    IF count(v.m_transactions_write, connection_id) = 0
    THEN Returns(v, "void")
    ELSE Returns([v EXCEPT !.m_transactions_write = erase(@, connection_id)], "void")

\* one call of an operation on the value: the object becomes what it leaves
Call(r) ==
    /\ m_value' = r.v.m_value
    /\ m_transactions_write' = r.v.m_transactions_write
    /\ m_transactions_read' = r.v.m_transactions_read

ValueSet(x) ==
    /\ Call(value_set(Value, x))
    /\ UNCHANGED <<vars, char_vars>>

\* the transactions open on the value, of all connections; the peers keep at
\* most MaxOpen of them in flight
Open == Cardinality(DOMAIN m_transactions_write) + Cardinality(DOMAIN m_transactions_read)

WriteStart(c) ==
    /\ c \in DOMAIN m_transactions_write \/ Open < MaxOpen
    /\ Call(transaction_write_start(Value, c))
    /\ UNCHANGED <<vars, char_vars>>

\* fragments are kept to what fits MaxLen bytes in the buffer
WriteAdd(c, data) ==
    /\ c \in DOMAIN m_transactions_write =>
          Len(m_transactions_write[c]) + Len(data) <= MaxLen
    /\ Call(transaction_write_add(Value, c, data))
    /\ UNCHANGED <<vars, char_vars>>

WriteCommit(c) ==
    /\ Call(transaction_write_commit(Value, c))
    /\ UNCHANGED <<vars, char_vars>>

WriteAbort(c) ==
    /\ Call(transaction_write_abort(Value, c))
    /\ UNCHANGED <<vars, char_vars>>

ReadStart(c) ==
    /\ c \in DOMAIN m_transactions_read \/ Open < MaxOpen
    /\ Call(transaction_read_start(Value, c))
    /\ UNCHANGED <<vars, char_vars>>

ReadAdvance(c, max_length) ==
    /\ Call(transaction_read_advance(Value, c, max_length))
    /\ UNCHANGED <<vars, char_vars>>

ReadAbort(c) ==
    /\ Call(transaction_read_abort(Value, c))
    /\ UNCHANGED <<vars, char_vars>>

ValueNext ==
    \/ \E x \in Data : ValueSet(x)
    \/ \E c \in ConnIds : WriteStart(c)
    \/ \E c \in ConnIds, data \in Data : WriteAdd(c, data)
    \/ \E c \in ConnIds : WriteCommit(c)
    \/ \E c \in ConnIds : WriteAbort(c)
    \/ \E c \in ConnIds : ReadStart(c)
    \/ \E c \in ConnIds, max_length \in 0 .. MaxLen + 1 : ReadAdvance(c, max_length)
    \/ \E c \in ConnIds : ReadAbort(c)

ValueSpec == Init /\ [][ValueNext]_value_vars

\* ---------------------------------------------------- BLE_Characteristic
MTU_DEFAULT_BLE_CLIENT == 23
ATT_FIELD_LENGTH_OPCODE == 1

\* the MTUs a peer asks for: small ones, under which a value of MaxLen bytes
\* spans several responses, and the default
Mtus == {ATT_FIELD_LENGTH_OPCODE + n : n \in 1 .. MaxSmallMtu} \cup {MTU_DEFAULT_BLE_CLIENT}

\* the attribute handle of the characteristic, among those of the events
handle == 1

ExecFlags == {"ESP_GATT_PREP_WRITE_EXEC", "ESP_GATT_PREP_WRITE_CANCEL"}

\* what a handler calls and sends; every response of the handlers is sent with
\* the status ESP_GATT_OK
Callback(which) == [kind |-> which, status |-> "none", data |-> <<>>]
Response(bytes) == [kind |-> "response", status |-> "ESP_GATT_OK", data |-> bytes]

\* a handler gives the value object it leaves and what it called and sent
Handled(v, o) == [v |-> v, out |-> o]

\* handle_request_write without the commit of an unprepared write
handle_request_write_uncommitted(v, param) ==
    IF param.handle # handle
    THEN Handled(v, <<>>)
    ELSE LET started == IF ~param.is_prep \/ param.offset = 0
                        THEN transaction_write_start(v, param.conn_id).v
                        ELSE v
             added == transaction_write_add(started, param.conn_id, param.value).v
         IN  Handled(added,
                     (IF ~param.is_prep /\ m_callback_write
                      THEN <<Callback("callback_write")>> ELSE <<>>)
                     \o (IF param.need_rsp THEN <<Response(param.value)>> ELSE <<>>))

\* BLE_Characteristic::handle_request_write
handle_request_write(v, param) ==
    IF param.handle # handle
    THEN Handled(v, <<>>)
    ELSE LET started == IF ~param.is_prep \/ param.offset = 0
                        THEN transaction_write_start(v, param.conn_id).v
                        ELSE v
             added == transaction_write_add(started, param.conn_id, param.value).v
             committed == IF ~param.is_prep
                          THEN transaction_write_commit(added, param.conn_id).v
                          ELSE added
         IN  Handled(committed,
                     (IF ~param.is_prep /\ m_callback_write
                      THEN <<Callback("callback_write")>> ELSE <<>>)
                     \o (IF param.need_rsp THEN <<Response(param.value)>> ELSE <<>>))

\* handle_request_exec_write that answers the peer before it runs the callback
handle_request_exec_write_respond_first(v, param) ==
    Handled(transaction_write_commit(v, param.conn_id).v,
            <<Response(<<>>)>>
            \o (IF m_callback_write THEN <<Callback("callback_write")>> ELSE <<>>))

\* BLE_Characteristic::handle_request_exec_write
handle_request_exec_write(v, param) ==
    Handled(transaction_write_commit(v, param.conn_id).v,
            (IF m_callback_write THEN <<Callback("callback_write")>> ELSE <<>>)
            \o <<Response(<<>>)>>)

\* handle_request_read that fills the whole MTU with value bytes
handle_request_read_whole_mtu(v, param) ==
    IF param.handle # handle \/ ~param.need_rsp
    THEN Handled(v, <<>>)
    ELSE LET started == IF ~param.is_long
                        THEN transaction_read_start(v, param.conn_id).v
                        ELSE v
             max_size == m_connections[param.conn_id].mtu
             advanced == transaction_read_advance(started, param.conn_id, max_size)
             short == Len(advanced.ret) < max_size
         IN  Handled(IF short
                     THEN transaction_read_abort(advanced.v, param.conn_id).v
                     ELSE advanced.v,
                     (IF short /\ m_callback_read
                      THEN <<Callback("callback_read")>> ELSE <<>>)
                     \o <<Response(advanced.ret)>>)

\* BLE_Characteristic::handle_request_read; the connection of the request is
\* one the server has a record of
handle_request_read(v, param) ==
    IF param.handle # handle \/ ~param.need_rsp
    THEN Handled(v, <<>>)
    ELSE LET started == IF ~param.is_long
                        THEN transaction_read_start(v, param.conn_id).v
                        ELSE v
             max_size == m_connections[param.conn_id].mtu - ATT_FIELD_LENGTH_OPCODE
             advanced == transaction_read_advance(started, param.conn_id, max_size)
             short == Len(advanced.ret) < max_size
         IN  Handled(IF short
                     THEN transaction_read_abort(advanced.v, param.conn_id).v
                     ELSE advanced.v,
                     (IF short /\ m_callback_read
                      THEN <<Callback("callback_read")>> ELSE <<>>)
                     \o <<Response(advanced.ret)>>)

\* BLE_Characteristic::characteristic_event_handler_gatts; own_if: the event
\* carries the interface of the characteristic
characteristic_event_handler_gatts(v, event, own_if, param) ==
    IF ~own_if
    THEN Handled(v, <<>>)
    ELSE CASE event = "ESP_GATTS_READ_EVT" ->
                IF param.handle = handle
                THEN handle_request_read(v, param) ELSE Handled(v, <<>>)
           [] event = "ESP_GATTS_WRITE_EVT" ->
                IF param.handle = handle
                THEN handle_request_write(v, param) ELSE Handled(v, <<>>)
           [] event = "ESP_GATTS_EXEC_WRITE_EVT" ->
                IF transaction_write_ongoing(v, param.conn_id).ret
                THEN handle_request_exec_write(v, param) ELSE Handled(v, <<>>)
           [] event = "ESP_GATTS_DISCONNECT_EVT" ->
                Handled(transaction_write_abort(
                            transaction_read_abort(v, param.conn_id).v, param.conn_id).v,
                        <<>>)
           [] OTHER -> Handled(v, <<>>)

\* BLE_Server::handle_connection_new
handle_connection_new(connections, conn_id) ==
    IF count(connections, conn_id) # 0
    THEN connections
    ELSE insert_or_assign(connections, conn_id, [mtu |-> MTU_DEFAULT_BLE_CLIENT])

\* BLE_Server::handle_connection_delete
handle_connection_delete(connections, conn_id) ==
    IF count(connections, conn_id) = 0 THEN connections ELSE erase(connections, conn_id)

\* BLE_Server::handle_connection_mtu_update
handle_connection_mtu_update(connections, conn_id, mtu) ==
    IF count(connections, conn_id) = 0
    THEN connections
    ELSE [connections EXCEPT ![conn_id].mtu = mtu]

\* BLE_Server::event_handler_gatts forwards an event to the characteristic
Forward(event, own_if, param) ==
    Call(characteristic_event_handler_gatts(Value, event, own_if, param))

\* ESP_GATTS_CONNECT_EVT: a peer connects under an id that is free
Connect(c) ==
    /\ c \notin DOMAIN m_connections
    /\ m_connections' = handle_connection_new(m_connections, c)
    /\ UNCHANGED <<vars, value_vars, m_callback_read, m_callback_write>>

\* ESP_GATTS_MTU_EVT of a connected peer
MtuUpdate(c, mtu) ==
    /\ c \in DOMAIN m_connections
    /\ m_connections' = handle_connection_mtu_update(m_connections, c, mtu)
    /\ Forward("ESP_GATTS_MTU_EVT", TRUE, [conn_id |-> c])
    /\ UNCHANGED <<vars, m_callback_read, m_callback_write>>

\* ESP_GATTS_DISCONNECT_EVT of a connected peer
Disconnect(c) ==
    /\ c \in DOMAIN m_connections
    /\ m_connections' = handle_connection_delete(m_connections, c)
    /\ Forward("ESP_GATTS_DISCONNECT_EVT", TRUE, [conn_id |-> c])
    /\ UNCHANGED <<vars, m_callback_read, m_callback_write>>

\* ESP_GATTS_WRITE_EVT of a connected peer; prepared fragments are kept to
\* what fits MaxLen bytes in the buffer, and the transactions open to MaxOpen;
\* of the events that are not for this characteristic one stands for all
WriteEvt(c, h, own_if, is_prep, offset, value, need_rsp) ==
    /\ c \in DOMAIN m_connections
    /\ (h # handle \/ ~own_if) => (~is_prep /\ offset = 0 /\ value = <<>> /\ need_rsp)
    /\ (is_prep /\ offset # 0 /\ c \in DOMAIN m_transactions_write) =>
          Len(m_transactions_write[c]) + Len(value) <= MaxLen
    /\ c \in DOMAIN m_transactions_write \/ Open < MaxOpen
    /\ Forward("ESP_GATTS_WRITE_EVT", own_if,
               [conn_id |-> c, handle |-> h, is_prep |-> is_prep, offset |-> offset,
                value |-> value, need_rsp |-> need_rsp])
    /\ UNCHANGED <<vars, m_connections, m_callback_read, m_callback_write>>

\* ESP_GATTS_EXEC_WRITE_EVT of a connected peer
ExecWriteEvt(c, own_if, flag) ==
    /\ c \in DOMAIN m_connections
    /\ Forward("ESP_GATTS_EXEC_WRITE_EVT", own_if, [conn_id |-> c, exec_write_flag |-> flag])
    /\ UNCHANGED <<vars, m_connections, m_callback_read, m_callback_write>>

\* ESP_GATTS_READ_EVT of a connected peer
ReadEvt(c, h, own_if, is_long, need_rsp) ==
    /\ c \in DOMAIN m_connections
    /\ (h # handle \/ ~own_if) => (~is_long /\ need_rsp)
    /\ c \in DOMAIN m_transactions_read \/ Open < MaxOpen
    /\ Forward("ESP_GATTS_READ_EVT", own_if,
               [conn_id |-> c, handle |-> h, is_long |-> is_long, need_rsp |-> need_rsp])
    /\ UNCHANGED <<vars, m_connections, m_callback_read, m_callback_write>>

\* BLE_Characteristic::callback_read_set / callback_write_set, with a callable
\* or an empty function
callback_set(read, write) ==
    /\ m_callback_read' = read
    /\ m_callback_write' = write
    /\ UNCHANGED <<vars, value_vars, m_connections>>

\* BLE_Characteristic::value_set called by the application
CharValueSet(x) ==
    /\ Call(value_set(Value, x))
    /\ UNCHANGED <<vars, m_connections, m_callback_read, m_callback_write>>

CharNext ==
    \/ \E c \in ConnIds : Connect(c)
    \/ \E c \in ConnIds, mtu \in Mtus : MtuUpdate(c, mtu)
    \/ \E c \in ConnIds : Disconnect(c)
    \/ \E c \in ConnIds, h \in Handles, own_if, is_prep, need_rsp \in BOOLEAN,
          offset \in 0 .. 1, value \in Data :
              WriteEvt(c, h, own_if, is_prep, offset, value, need_rsp)
    \/ \E c \in ConnIds, own_if \in BOOLEAN, flag \in ExecFlags : ExecWriteEvt(c, own_if, flag)
    \/ \E c \in ConnIds, h \in Handles, own_if, is_long, need_rsp \in BOOLEAN :
              ReadEvt(c, h, own_if, is_long, need_rsp)
    \/ \E read, write \in BOOLEAN : callback_set(read, write)
    \/ \E x \in Data : CharValueSet(x)

CharSpec == Init /\ [][CharNext]_gatt_vars

\* ---- the characteristics of one profile
\* BLE_Profile::profile_event_handler_gatts hands every event it does not
\* handle itself to every service, and BLE_Service::service_event_handler_gatts
\* hands every event it does not handle itself to every characteristic.  All
\* of them carry the interface of the profile.  The characteristics of a run
\* have the attribute handles of Handles.

\* the parameter as the characteristic with attribute handle h reads it: the
\* handle of the event is its own or another one
Own(param, h) ==
    IF "handle" \in DOMAIN param
    THEN [param EXCEPT !.handle = IF @ = h THEN handle ELSE handle + 1]
    ELSE param

\* the loops of the default cases (src/ble_profile.cpp:370-372,
\* src/ble/ble_service.cpp:306-309): every characteristic handles the event,
\* one after the other
RECURSIVE forward_characteristics(_, _, _, _)
forward_characteristics(chars, event, param, hs) ==
    IF hs = {}
    THEN Handled(chars, <<>>)
    ELSE LET h == CHOOSE x \in hs : \A y \in hs : x <= y
             r == characteristic_event_handler_gatts(chars[h], event, TRUE, Own(param, h))
             rest == forward_characteristics(
                         [chars EXCEPT ![h] = r.v], event, param, hs \ {h})
         IN  Handled(rest.v, r.out \o rest.out)

\* the bytes the peers write to the characteristics of the profile
MaxTreeByte == 1

TreeData == UNION {[1 .. k -> 1 .. MaxTreeByte] : k \in 0 .. MaxLen}

\* ESP_GATTS_WRITE_EVT of a connected peer for the characteristic with handle h
TreeWriteEvt(c, h, is_prep, offset, value, need_rsp) ==
    /\ c \in DOMAIN m_connections
    /\ (is_prep /\ offset # 0 /\ c \in DOMAIN characteristics[h].m_transactions_write) =>
          Len(characteristics[h].m_transactions_write[c]) + Len(value) <= MaxLen
    /\ characteristics' =
          forward_characteristics(
              characteristics, "ESP_GATTS_WRITE_EVT",
              [conn_id |-> c, handle |-> h, is_prep |-> is_prep, offset |-> offset,
               value |-> value, need_rsp |-> need_rsp], Handles).v
    /\ UNCHANGED <<server_vars, value_vars, char_vars, svc_vars>>

\* ESP_GATTS_EXEC_WRITE_EVT of a connected peer
TreeExecWriteEvt(c, flag) ==
    /\ c \in DOMAIN m_connections
    /\ characteristics' =
          forward_characteristics(
              characteristics, "ESP_GATTS_EXEC_WRITE_EVT",
              [conn_id |-> c, exec_write_flag |-> flag], Handles).v
    /\ UNCHANGED <<server_vars, value_vars, char_vars, svc_vars>>

\* ESP_GATTS_DISCONNECT_EVT of a connected peer
TreeDisconnect(c) ==
    /\ c \in DOMAIN m_connections
    /\ m_connections' = handle_connection_delete(m_connections, c)
    /\ characteristics' =
          forward_characteristics(
              characteristics, "ESP_GATTS_DISCONNECT_EVT", [conn_id |-> c], Handles).v
    /\ UNCHANGED <<server_vars, value_vars, m_callback_read, m_callback_write, svc_vars>>

TreeNext ==
    \/ \E c \in ConnIds : Connect(c)
    \/ \E c \in ConnIds : TreeDisconnect(c)
    \/ \E c \in ConnIds, h \in Handles, is_prep, need_rsp \in BOOLEAN,
          offset \in 0 .. 1, value \in TreeData :
              TreeWriteEvt(c, h, is_prep, offset, value, need_rsp)
    \/ \E c \in ConnIds, flag \in ExecFlags : TreeExecWriteEvt(c, flag)
    \/ \E write \in BOOLEAN : callback_set(FALSE, write)

TreeSpec == Init /\ [][TreeNext]_gatt_vars

\* ------------------------------------------------ BLE_Profile, BLE_Service
\* A run has the caller threads work on one object: the server (the actions
\* of Next), one profile of it (service_add, service_remove) or one service of
\* a profile (characteristic_add, service_start).  Each object has its own
\* m_notification_mgr and map semaphore.  AnchorSemaphore (utilities.hpp) is
\* not part of src/: it takes the semaphore where it is declared and gives it
\* back at the end of its scope (spec.md 5).

\* the enum class OP of BLE_Profile and of BLE_Service: the tag a call waits on
OwnerOp(c) ==
    CASE c.fn = "service_add" -> "SERVICE_ADD"
      [] c.fn \in {"service_remove", "service_remove_handle"} -> "SERVICE_REMOVE"
      [] c.fn = "characteristic_add" -> "CHARACTERISTIC_ADD"
      [] OTHER -> "SERVICE_START"

\* what no action on a profile or a service touches
elsewhere == <<gatt_vars, m_state, m_profiles, synced, hw_reg, hw_unreg, target>>

\* std::unordered_map::insert: a key that is present keeps its entry
insert(map, k, x) == IF count(map, k) # 0 THEN map ELSE insert_or_assign(map, k, x)

\* a default-constructed (null) shared_ptr as a map entry, and the crash of
\* the task that dereferences one
NULLPTR == 0
CRASH == 0

\* std::unordered_map::operator[]: a key that is absent gets a null entry
subscript(map, k) == insert(map, k, NULLPTR)

\* map[k]->handle: the handle of the entry; through a null entry the read is
\* undefined: the task crashes or goes on with whatever it read
deref(map, k) ==
    IF count(map, k) # 0 /\ map[k] # NULLPTR THEN {map[k]} ELSE Handles \cup {CRASH}

\* an AnchorSemaphore that keeps the semaphore when its scope ends
anchor_release_kept(t) == t

\* ~AnchorSemaphore at the end of the scope
anchor_release(t) == 0

\* the end of the last scope a blocking call closes before its wait()
last_scope_end(t) == anchor_release(t)

\* the call of thread t begins
Enter(t, fn, id, b) ==
    /\ cur' = [cur EXCEPT ![t] = [fn |-> fn, id |-> id]]
    /\ arg_blocking' = [arg_blocking EXCEPT ![t] = b]

\* the call of thread t is about to return res, all its statements done
Leave(t, res) ==
    /\ pc' = [pc EXCEPT ![t] = "return"]
    /\ returned' = [returned EXCEPT ![t] = res]

\* the call of thread t returns to its caller
Return(t) ==
    /\ ~aborted
    /\ target # "server"
    /\ pc[t] = "return"
    /\ pc' = [pc EXCEPT ![t] = "idle"]
    /\ cur' = [cur EXCEPT ![t] = NoCall]
    /\ arg_blocking' = [arg_blocking EXCEPT ![t] = FALSE]
    /\ returned' = [returned EXCEPT ![t] = "none"]
    /\ wait_result' = [wait_result EXCEPT ![t] = "none"]
    /\ UNCHANGED <<m_notification_mgr, lock, sem, wait_end, aborted, evt_wait,
                   profile_vars, service_vars, elsewhere>>

\* BLE_Service::service_start called with blocking: does the caller enter wait()?
service_start_waits(blocking) == blocking

\* a constructor that starts the service with the default argument
BLE_Service_blocking == service_start_waits(TRUE)

\* BLE_Service::BLE_Service: service_start(false); does the constructor enter wait()?
BLE_Service == service_start_waits(FALSE)

\* ---- BLE_Profile
\* BLE_Profile::service_add: the anchor of the first scope is taken
service_add(t, uuid, blocking) ==
    /\ ~aborted
    /\ target = "profile"
    /\ pc[t] = "idle"
    /\ sem = 0
    /\ sem' = t
    /\ pc' = [pc EXCEPT ![t] = "add_check"]
    /\ Enter(t, "service_add", uuid, blocking)
    /\ UNCHANGED <<m_notification_mgr, lock, wait_result, wait_end, returned, aborted,
                   evt_wait, profile_vars, service_vars, elsewhere>>

\* service_add: the service or its creation is there: false; scope ends
ServiceAddCheck(t) ==
    /\ ~aborted
    /\ target = "profile"
    /\ pc[t] = "add_check"
    /\ sem = t
    /\ sem' = anchor_release(t)
    /\ IF count(m_services_uuid, cur[t].id) # 0 \/ cur[t].id \in m_services_creation
       THEN Leave(t, "false")
       ELSE /\ pc' = [pc EXCEPT ![t] = "add_mark"]
            /\ UNCHANGED returned
    /\ UNCHANGED <<m_notification_mgr, lock, cur, arg_blocking, wait_result, wait_end,
                   aborted, evt_wait, profile_vars, service_vars, elsewhere>>

\* service_add: the creation is recorded under the semaphore
ServiceAddMark(t) ==
    /\ ~aborted
    /\ target = "profile"
    /\ pc[t] = "add_mark"
    /\ sem = 0
    /\ sem' = last_scope_end(t)
    /\ m_services_creation' = m_services_creation \cup {cur[t].id}
    /\ pc' = [pc EXCEPT ![t] = IF arg_blocking[t] THEN "wait_enter" ELSE "add_request"]
    /\ UNCHANGED <<m_notification_mgr, lock, cur, arg_blocking, wait_result, wait_end,
                   returned, aborted, evt_wait, m_services_uuid, m_services_handle,
                   hw_create, hw_delete, service_vars, elsewhere>>

\* creation_function of service_add: esp_ble_gatts_create_service; for a
\* rejected request the anchor of the error path is taken
service_add_creation_function(t, uuid, out) ==
    /\ out = "accept" => hw_create[uuid] < MaxInFlight
    /\ out = "reject" => sem = 0
    /\ hw_create' = IF out = "accept" THEN Inc(hw_create, uuid) ELSE hw_create
    /\ sem' = IF out = "reject" THEN t ELSE sem
    /\ UNCHANGED <<m_services_uuid, m_services_handle, m_services_creation, hw_delete,
                   service_vars, aborted>>

\* deletion_function of service_remove: esp_ble_gatts_delete_service of
\* m_services_uuid[uuid]->handle, read as h
service_remove_deletion_function(uuid, out, h) ==
    /\ h \in deref(m_services_uuid, uuid)
    /\ UNCHANGED sem
    /\ IF h = CRASH
       THEN /\ aborted' = TRUE
            /\ UNCHANGED <<profile_vars, service_vars>>
       ELSE /\ out = "accept" => hw_delete[h] < MaxInFlight
            /\ hw_delete' = IF out = "accept" THEN Inc(hw_delete, h) ELSE hw_delete
            /\ m_services_uuid' = subscript(m_services_uuid, uuid)
            /\ UNCHANGED <<m_services_handle, m_services_creation, hw_create,
                           service_vars, aborted>>

\* service_add without blocking: return creation_function()
ServiceAddRequest(t) ==
    /\ ~aborted
    /\ target = "profile"
    /\ pc[t] = "add_request"
    /\ \E out \in {"reject", "accept"} :
         /\ service_add_creation_function(t, cur[t].id, out)
         /\ IF out = "accept"
            THEN Leave(t, "true")
            ELSE /\ pc' = [pc EXCEPT ![t] = "creation_failed"]
                 /\ UNCHANGED returned
    /\ UNCHANGED <<m_notification_mgr, lock, cur, arg_blocking, wait_result, wait_end,
                   evt_wait, elsewhere>>

\* BLE_Profile::service_remove(UUID, bool): the anchor of the first scope is taken
service_remove(t, uuid, blocking) ==
    /\ ~aborted
    /\ target = "profile"
    /\ pc[t] = "idle"
    /\ sem = 0
    /\ sem' = t
    /\ pc' = [pc EXCEPT ![t] = "remove_check"]
    /\ Enter(t, "service_remove", uuid, blocking)
    /\ UNCHANGED <<m_notification_mgr, lock, wait_result, wait_end, returned, aborted,
                   evt_wait, profile_vars, service_vars, elsewhere>>

\* the handle form passing its blocking argument on
service_remove_inner_blocking_passed(blocking) == blocking

\* service_remove(uint16_t, bool) calls service_remove(service_uuid): the
\* blocking parameter of the inner call is its default, true
service_remove_inner_blocking(blocking) == TRUE

\* the blocking parameter of the service_remove(UUID, bool) the thread runs
Blocking(t) ==
    IF cur[t].fn = "service_remove_handle"
    THEN service_remove_inner_blocking(arg_blocking[t])
    ELSE arg_blocking[t]

\* service_remove: no such service: return; scope ends
ServiceRemoveCheck(t) ==
    /\ ~aborted
    /\ target = "profile"
    /\ pc[t] = "remove_check"
    /\ sem = t
    /\ sem' = last_scope_end(t)
    /\ IF count(m_services_uuid, cur[t].id) = 0
       THEN Leave(t, "void")
       ELSE /\ pc' = [pc EXCEPT ![t] = IF Blocking(t) THEN "wait_enter"
                                       ELSE "remove_request"]
            /\ UNCHANGED returned
    /\ UNCHANGED <<m_notification_mgr, lock, cur, arg_blocking, wait_result, wait_end,
                   aborted, evt_wait, profile_vars, service_vars, elsewhere>>

\* service_remove without blocking: deletion_function()
ServiceRemoveRequest(t) ==
    /\ ~aborted
    /\ target = "profile"
    /\ pc[t] = "remove_request"
    /\ \E out \in {"reject", "accept"}, h \in Handles \cup {CRASH} :
         service_remove_deletion_function(cur[t].id, out, h)
    /\ pc' = [pc EXCEPT ![t] = "remove_finish"]
    /\ UNCHANGED <<m_notification_mgr, lock, cur, arg_blocking, wait_result, wait_end,
                   returned, evt_wait, elsewhere>>

\* service_remove, after the request or the wait, whatever came of it: under
\* the semaphore erase m_services_uuid[uuid]->handle from the handle map and
\* uuid from the uuid map
ServiceRemoveFinish(t) ==
    /\ ~aborted
    /\ target = "profile"
    /\ pc[t] = "remove_finish"
    /\ sem = 0
    /\ sem' = anchor_release(t)
    /\ \E h \in deref(m_services_uuid, cur[t].id) :
         IF h = CRASH
         THEN /\ aborted' = TRUE
              /\ UNCHANGED <<pc, returned, profile_vars>>
         ELSE /\ m_services_handle' = erase(m_services_handle, h)
              /\ m_services_uuid' = erase(m_services_uuid, cur[t].id)
              /\ Leave(t, "void")
              /\ UNCHANGED <<m_services_creation, hw_create, hw_delete, aborted>>
    /\ UNCHANGED <<m_notification_mgr, lock, cur, arg_blocking, wait_result, wait_end,
                   evt_wait, service_vars, elsewhere>>

\* BLE_Profile::service_remove(uint16_t, bool): the anchor of its scope is taken
service_remove_handle(t, h, blocking) ==
    /\ ~aborted
    /\ target = "profile"
    /\ pc[t] = "idle"
    /\ sem = 0
    /\ sem' = t
    /\ pc' = [pc EXCEPT ![t] = "handle_check"]
    /\ Enter(t, "service_remove_handle", h, blocking)
    /\ UNCHANGED <<m_notification_mgr, lock, wait_result, wait_end, returned, aborted,
                   evt_wait, profile_vars, service_vars, elsewhere>>

\* service_remove(uint16_t, bool): no such handle: return; else the uuid of the
\* service is read, the scope ends and service_remove(service_uuid) is called
ServiceRemoveHandleCheck(t) ==
    /\ ~aborted
    /\ target = "profile"
    /\ pc[t] = "handle_check"
    /\ sem = t
    /\ sem' = anchor_release(t)
    /\ IF count(m_services_handle, cur[t].id) = 0
       THEN /\ Leave(t, "void")
            /\ UNCHANGED cur
       ELSE /\ cur' = [cur EXCEPT ![t].id = m_services_handle[cur[t].id]]
            /\ pc' = [pc EXCEPT ![t] = "remove_enter"]
            /\ UNCHANGED returned
    /\ UNCHANGED <<m_notification_mgr, lock, arg_blocking, wait_result, wait_end,
                   aborted, evt_wait, profile_vars, service_vars, elsewhere>>

\* the service_remove(UUID, bool) called by the handle form takes its anchor
ServiceRemoveEnter(t) ==
    /\ ~aborted
    /\ target = "profile"
    /\ pc[t] = "remove_enter"
    /\ sem = 0
    /\ sem' = t
    /\ pc' = [pc EXCEPT ![t] = "remove_check"]
    /\ UNCHANGED <<m_notification_mgr, lock, cur, arg_blocking, wait_result, wait_end,
                   returned, aborted, evt_wait, profile_vars, service_vars, elsewhere>>

\* ---- BLE_Service
\* BLE_Service::characteristic_add: the anchor of the first scope is taken
characteristic_add(t, uuid, blocking) ==
    /\ ~aborted
    /\ target = "service"
    /\ pc[t] = "idle"
    /\ sem = 0
    /\ sem' = t
    /\ pc' = [pc EXCEPT ![t] = "char_check"]
    /\ Enter(t, "characteristic_add", uuid, blocking)
    /\ UNCHANGED <<m_notification_mgr, lock, wait_result, wait_end, returned, aborted,
                   evt_wait, profile_vars, service_vars, elsewhere>>

\* characteristic_add: the characteristic or its creation is there: false
CharacteristicAddCheck(t) ==
    /\ ~aborted
    /\ target = "service"
    /\ pc[t] = "char_check"
    /\ sem = t
    /\ sem' = anchor_release(t)
    /\ IF count(m_characteristics_uuid, cur[t].id) # 0
          \/ cur[t].id \in m_characteristics_creation
       THEN Leave(t, "false")
       ELSE /\ pc' = [pc EXCEPT ![t] = "char_mark"]
            /\ UNCHANGED returned
    /\ UNCHANGED <<m_notification_mgr, lock, cur, arg_blocking, wait_result, wait_end,
                   aborted, evt_wait, profile_vars, service_vars, elsewhere>>

\* characteristic_add: the creation is recorded under the semaphore
CharacteristicAddMark(t) ==
    /\ ~aborted
    /\ target = "service"
    /\ pc[t] = "char_mark"
    /\ sem = 0
    /\ sem' = last_scope_end(t)
    /\ m_characteristics_creation' = m_characteristics_creation \cup {cur[t].id}
    /\ pc' = [pc EXCEPT ![t] = IF arg_blocking[t] THEN "wait_enter" ELSE "char_request"]
    /\ UNCHANGED <<m_notification_mgr, lock, cur, arg_blocking, wait_result, wait_end,
                   returned, aborted, evt_wait, profile_vars, m_characteristics_uuid,
                   m_characteristics_handle, m_status, hw_add_char, hw_start, elsewhere>>

\* creation_function of characteristic_add: esp_ble_gatts_add_char; for a
\* rejected request the anchor of the error path is taken
characteristic_add_creation_function(t, uuid, out) ==
    /\ out = "accept" => hw_add_char[uuid] < MaxInFlight
    /\ out = "reject" => sem = 0
    /\ hw_add_char' = IF out = "accept" THEN Inc(hw_add_char, uuid) ELSE hw_add_char
    /\ sem' = IF out = "reject" THEN t ELSE sem
    /\ UNCHANGED <<m_characteristics_uuid, m_characteristics_handle,
                   m_characteristics_creation, m_status, hw_start, profile_vars, aborted>>

\* starting_function of service_start: esp_ble_gatts_start_service
service_start_starting_function(out) ==
    /\ out = "accept" => hw_start < MaxInFlight
    /\ hw_start' = IF out = "accept" THEN hw_start + 1 ELSE hw_start
    /\ UNCHANGED sem
    /\ UNCHANGED <<m_characteristics_uuid, m_characteristics_handle,
                   m_characteristics_creation, m_status, hw_add_char, profile_vars,
                   aborted>>

\* characteristic_add without blocking: return creation_function()
CharacteristicAddRequest(t) ==
    /\ ~aborted
    /\ target = "service"
    /\ pc[t] = "char_request"
    /\ \E out \in {"reject", "accept"} :
         /\ characteristic_add_creation_function(t, cur[t].id, out)
         /\ IF out = "accept"
            THEN Leave(t, "true")
            ELSE /\ pc' = [pc EXCEPT ![t] = "creation_failed"]
                 /\ UNCHANGED returned
    /\ UNCHANGED <<m_notification_mgr, lock, cur, arg_blocking, wait_result, wait_end,
                   evt_wait, elsewhere>>

\* the uuid of the service the threads work on
ServiceUuid == 1

\* BLE_Service::service_start: without blocking return starting_function(),
\* else enter wait()
service_start(t, blocking) ==
    /\ ~aborted
    /\ target = "service"
    /\ pc[t] = "idle"
    /\ Enter(t, "service_start", ServiceUuid, blocking)
    /\ IF service_start_waits(blocking)
       THEN /\ pc' = [pc EXCEPT ![t] = "wait_enter"]
            /\ UNCHANGED <<sem, returned, service_vars, profile_vars, aborted>>
       ELSE \E out \in {"reject", "accept"} :
              /\ service_start_starting_function(out)
              /\ Leave(t, ToResult(out = "accept"))
    /\ UNCHANGED <<m_notification_mgr, lock, wait_result, wait_end, evt_wait, elsewhere>>

\* ---- wait() as the calls on a profile and on a service run it
\* the action of the wait of call c
owner_action(t, c, out, h) ==
    CASE c.fn = "service_add" -> service_add_creation_function(t, c.id, out)
      [] c.fn \in {"service_remove", "service_remove_handle"} ->
             service_remove_deletion_function(c.id, out, h)
      [] c.fn = "characteristic_add" -> characteristic_add_creation_function(t, c.id, out)
      [] OTHER -> service_start_starting_function(out)

\* the calls whose action takes the semaphore when its request is rejected
Adds == {"service_add", "characteristic_add"}

\* where the call goes on when its wait has returned
AfterWait(c) ==
    IF c.fn \in {"service_remove", "service_remove_handle"}
    THEN "remove_finish" ELSE "after_wait"

\* wait() entered: the registry lock is taken
OwnerWaitEnter(t) ==
    /\ ~aborted
    /\ target # "server"
    /\ pc[t] = "wait_enter"
    /\ wait_lock(t)
    /\ UNCHANGED <<m_notification_mgr, sem, cur, arg_blocking, wait_result, wait_end,
                   returned, aborted, evt_wait, profile_vars, service_vars, elsewhere>>

\* wait(): under the lock, fail fast on a duplicate or register; release
OwnerWaitRegister(t) ==
    /\ ~aborted
    /\ target # "server"
    /\ pc[t] = "wait_locked"
    /\ lock = t
    /\ lock' = wait_unlock(t)
    /\ m_notification_mgr' = wait_register(m_notification_mgr, t, cur[t].id, OwnerOp(cur[t]))
    /\ IF pending(m_notification_mgr, cur[t].id, OwnerOp(cur[t]))
       THEN /\ pc' = [pc EXCEPT ![t] = AfterWait(cur[t])]
            /\ wait_result' = [wait_result EXCEPT ![t] = NULLOPT]
            /\ UNCHANGED wait_end
       ELSE /\ pc' = [pc EXCEPT ![t] = "wait_action"]
            /\ UNCHANGED <<wait_result, wait_end>>
    /\ UNCHANGED <<sem, cur, arg_blocking, returned, aborted, evt_wait, profile_vars,
                   service_vars, elsewhere>>

\* wait(): run the action; on rejection cancel the registration and return
\* false, otherwise suspend; the action of an add whose request is rejected is
\* then in its error path
OwnerWaitAction(t) ==
    /\ ~aborted
    /\ target # "server"
    /\ pc[t] = "wait_action"
    /\ \E out \in {"reject", "accept"}, h \in Handles \cup {CRASH} :
         /\ cur[t].fn \notin {"service_remove", "service_remove_handle"} => h = CRASH
         /\ owner_action(t, cur[t], out, h)
         /\ IF out = "accept"
            THEN /\ pc' = [pc EXCEPT ![t] = "wait_block"]
                 /\ UNCHANGED <<m_notification_mgr, wait_result, wait_end>>
            ELSE IF cur[t].fn \in Adds
            THEN /\ pc' = [pc EXCEPT ![t] = "creation_failed"]
                 /\ UNCHANGED <<m_notification_mgr, wait_result, wait_end>>
            ELSE /\ lock = 0
                 /\ m_notification_mgr' = wait_cancel(m_notification_mgr, t)
                 /\ pc' = [pc EXCEPT ![t] = AfterWait(cur[t])]
                 /\ wait_result' = [wait_result EXCEPT ![t] = "false"]
                 /\ UNCHANGED wait_end
    /\ UNCHANGED <<lock, cur, arg_blocking, returned, evt_wait, elsewhere>>

\* the error path of creation_function: the creation is erased, the scope
\* ends and the function returns false, to the caller or to the wait(), which
\* cancels the registration and returns false
CreationFailed(t) ==
    /\ ~aborted
    /\ target # "server"
    /\ pc[t] = "creation_failed"
    /\ sem = t
    /\ sem' = anchor_release(t)
    /\ m_services_creation' = IF cur[t].fn = "service_add"
                              THEN m_services_creation \ {cur[t].id}
                              ELSE m_services_creation
    /\ m_characteristics_creation' = IF cur[t].fn = "characteristic_add"
                                     THEN m_characteristics_creation \ {cur[t].id}
                                     ELSE m_characteristics_creation
    /\ IF arg_blocking[t]
       THEN /\ lock = 0
            /\ m_notification_mgr' = wait_cancel(m_notification_mgr, t)
            /\ pc' = [pc EXCEPT ![t] = "after_wait"]
            /\ wait_result' = [wait_result EXCEPT ![t] = "false"]
            /\ UNCHANGED returned
       ELSE /\ Leave(t, "false")
            /\ UNCHANGED <<m_notification_mgr, wait_result>>
    /\ UNCHANGED <<lock, cur, arg_blocking, wait_end, aborted, evt_wait, m_services_uuid,
                   m_services_handle, hw_create, hw_delete, m_characteristics_uuid,
                   m_characteristics_handle, m_status, hw_add_char, hw_start, elsewhere>>

\* wait(): a notify filled the slot: return its value
OwnerWaitWake(t) ==
    /\ ~aborted
    /\ target # "server"
    /\ pc[t] = "wait_block"
    /\ m_notification_mgr.slot[t] # "none"
    /\ pc' = [pc EXCEPT ![t] = AfterWait(cur[t])]
    /\ wait_result' = [wait_result EXCEPT ![t] = m_notification_mgr.slot[t]]
    /\ UNCHANGED wait_end
    /\ m_notification_mgr' = wait_destroy(m_notification_mgr, t)
    /\ UNCHANGED <<lock, sem, cur, arg_blocking, returned, aborted, evt_wait,
                   profile_vars, service_vars, elsewhere>>

\* wait(): the bounded timeout elapsed with the slot still empty: remove the
\* PendingWait and return empty
OwnerWaitTimeout(t) ==
    /\ ~aborted
    /\ target # "server"
    /\ pc[t] = "wait_block"
    /\ m_notification_mgr.slot[t] = "none"
    /\ lock = 0
    /\ m_notification_mgr' = wait_expire(m_notification_mgr, t)
    /\ pc' = [pc EXCEPT ![t] = AfterWait(cur[t])]
    /\ wait_result' = [wait_result EXCEPT ![t] = NULLOPT]
    /\ UNCHANGED wait_end
    /\ UNCHANGED <<lock, sem, cur, arg_blocking, returned, aborted, evt_wait,
                   profile_vars, service_vars, elsewhere>>

\* service_add, characteristic_add, service_start after wait(): an empty result
\* makes the adds erase their creation under the semaphore and return false;
\* else the result is returned
AddFinish(t) ==
    /\ ~aborted
    /\ target # "server"
    /\ pc[t] = "after_wait"
    /\ IF wait_result[t] = NULLOPT /\ cur[t].fn # "service_start"
       THEN /\ sem = 0
            /\ sem' = anchor_release(t)
            /\ m_services_creation' = IF cur[t].fn = "service_add"
                                      THEN m_services_creation \ {cur[t].id}
                                      ELSE m_services_creation
            /\ m_characteristics_creation' = IF cur[t].fn = "characteristic_add"
                                             THEN m_characteristics_creation \ {cur[t].id}
                                             ELSE m_characteristics_creation
       ELSE UNCHANGED <<sem, m_services_creation, m_characteristics_creation>>
    /\ Leave(t, IF wait_result[t] = NULLOPT THEN "false" ELSE wait_result[t])
    /\ UNCHANGED <<m_notification_mgr, lock, cur, arg_blocking, wait_result, wait_end,
                   aborted, evt_wait, m_services_uuid, m_services_handle, hw_create,
                   hw_delete, m_characteristics_uuid, m_characteristics_handle, m_status,
                   hw_add_char, hw_start, elsewhere>>

\* ---- the getters: whether the weak pointer returned is one to an object
\* BLE_Server::profile_get
profile_get(profile_id) == profile_id \in m_profiles

\* BLE_Profile::service_get(UUID)
service_get(uuid) == count(m_services_uuid, uuid) # 0 /\ m_services_uuid[uuid] # NULLPTR

\* BLE_Service::characteristic_get
characteristic_get(uuid) ==
    count(m_characteristics_uuid, uuid) # 0 /\ m_characteristics_uuid[uuid] # NULLPTR

\* a creation handler that notifies success without putting the characteristic
\* into the maps
handle_characteristic_create_uninserted(uuid, attr_handle, ok) ==
    /\ m_characteristics_creation' = m_characteristics_creation \ {uuid}
    /\ m_notification_mgr' = notify(m_notification_mgr, uuid, "CHARACTERISTIC_ADD", ok)
    /\ UNCHANGED <<m_characteristics_uuid, m_characteristics_handle>>

\* ---- the event context
\* BLE_Profile::handle_service_add
handle_service_add(uuid, service_handle, ok) ==
    IF ~ok \/ count(m_services_handle, service_handle) # 0
    THEN /\ m_services_creation' = m_services_creation \ {uuid}
         /\ m_notification_mgr' = notify(m_notification_mgr, uuid, "SERVICE_ADD", FALSE)
         /\ UNCHANGED <<m_services_uuid, m_services_handle, evt_wait>>
    ELSE IF BLE_Service
    THEN /\ evt_wait' = TRUE
         /\ UNCHANGED <<m_services_uuid, m_services_handle, m_services_creation,
                        m_notification_mgr>>
    ELSE /\ m_services_uuid' = insert(m_services_uuid, uuid, service_handle)
         /\ m_services_handle' = insert(m_services_handle, service_handle, uuid)
         /\ m_services_creation' = m_services_creation \ {uuid}
         /\ m_notification_mgr' = notify(m_notification_mgr, uuid, "SERVICE_ADD", TRUE)
         /\ UNCHANGED evt_wait

\* BLE_Profile::handle_service_remove
handle_service_remove(service_handle, ok) ==
    IF count(m_services_handle, service_handle) = 0
    THEN UNCHANGED m_notification_mgr
    ELSE m_notification_mgr' = notify(m_notification_mgr, m_services_handle[service_handle],
                                      "SERVICE_REMOVE", ok)

\* the event context delivers ESP_GATTS_CREATE_EVT for an accepted request,
\* with the handle the stack gave the service
EvtCreate(uuid, service_handle, ok) ==
    /\ ~aborted
    /\ target = "profile"
    /\ ~evt_wait
    /\ hw_create[uuid] > 0
    /\ sem = 0
    /\ lock = 0
    /\ hw_create' = Dec(hw_create, uuid)
    /\ handle_service_add(uuid, service_handle, ok)
    /\ UNCHANGED <<lock, sem, pc, cur, arg_blocking, wait_result, wait_end, returned,
                   aborted, hw_delete, service_vars, elsewhere>>

\* the event context delivers ESP_GATTS_DELETE_EVT for an accepted request
EvtDelete(service_handle, ok) ==
    /\ ~aborted
    /\ target = "profile"
    /\ ~evt_wait
    /\ hw_delete[service_handle] > 0
    /\ sem = 0
    /\ lock = 0
    /\ hw_delete' = Dec(hw_delete, service_handle)
    /\ handle_service_remove(service_handle, ok)
    /\ UNCHANGED <<lock, sem, pc, cur, arg_blocking, wait_result, wait_end, returned,
                   aborted, evt_wait, m_services_uuid, m_services_handle,
                   m_services_creation, hw_create, service_vars, elsewhere>>

\* BLE_Service::handle_characteristic_create
handle_characteristic_create(uuid, attr_handle, ok) ==
    IF uuid \notin m_characteristics_creation
    THEN /\ m_notification_mgr' = notify(m_notification_mgr, uuid, "CHARACTERISTIC_ADD", FALSE)
         /\ UNCHANGED <<m_characteristics_uuid, m_characteristics_handle,
                        m_characteristics_creation>>
    ELSE IF count(m_characteristics_uuid, uuid) # 0 \/ ~ok
    THEN /\ m_characteristics_creation' = m_characteristics_creation \ {uuid}
         /\ m_notification_mgr' = notify(m_notification_mgr, uuid, "CHARACTERISTIC_ADD", FALSE)
         /\ UNCHANGED <<m_characteristics_uuid, m_characteristics_handle>>
    ELSE /\ m_characteristics_uuid' = insert(m_characteristics_uuid, uuid, attr_handle)
         /\ m_characteristics_handle' = insert(m_characteristics_handle, attr_handle, uuid)
         /\ m_characteristics_creation' = m_characteristics_creation \ {uuid}
         /\ m_notification_mgr' = notify(m_notification_mgr, uuid, "CHARACTERISTIC_ADD", TRUE)

\* BLE_Service::service_event_handler_gatts, case ESP_GATTS_START_EVT
handle_service_start(ok) ==
    /\ m_status' = IF ok THEN "STARTED" ELSE m_status
    /\ m_notification_mgr' = notify(m_notification_mgr, ServiceUuid, "SERVICE_START", ok)

\* the event context delivers ESP_GATTS_ADD_CHAR_EVT for an accepted request
EvtAddChar(uuid, attr_handle, ok) ==
    /\ ~aborted
    /\ target = "service"
    /\ ~evt_wait
    /\ hw_add_char[uuid] > 0
    /\ sem = 0
    /\ lock = 0
    /\ hw_add_char' = Dec(hw_add_char, uuid)
    /\ handle_characteristic_create(uuid, attr_handle, ok)
    /\ UNCHANGED <<lock, sem, pc, cur, arg_blocking, wait_result, wait_end, returned,
                   aborted, evt_wait, m_status, hw_start, profile_vars, elsewhere>>

\* the event context delivers ESP_GATTS_START_EVT for an accepted request
EvtStart(ok) ==
    /\ ~aborted
    /\ target = "service"
    /\ ~evt_wait
    /\ hw_start > 0
    /\ lock = 0
    /\ hw_start' = hw_start - 1
    /\ handle_service_start(ok)
    /\ UNCHANGED <<lock, sem, pc, cur, arg_blocking, wait_result, wait_end, returned,
                   aborted, evt_wait, m_characteristics_uuid, m_characteristics_handle,
                   m_characteristics_creation, hw_add_char, profile_vars, elsewhere>>

ProfileNext ==
    \/ \E t \in Threads, u \in Uuids, b \in BOOLEAN : service_add(t, u, b)
    \/ \E t \in Threads : ServiceAddCheck(t)
    \/ \E t \in Threads : ServiceAddMark(t)
    \/ \E t \in Threads : ServiceAddRequest(t)
    \/ \E t \in Threads, u \in Uuids, b \in BOOLEAN : service_remove(t, u, b)
    \/ \E t \in Threads : ServiceRemoveCheck(t)
    \/ \E t \in Threads : ServiceRemoveRequest(t)
    \/ \E t \in Threads : ServiceRemoveFinish(t)
    \/ \E t \in Threads, h \in Handles, b \in BOOLEAN : service_remove_handle(t, h, b)
    \/ \E t \in Threads : ServiceRemoveHandleCheck(t)
    \/ \E t \in Threads : ServiceRemoveEnter(t)
    \/ \E u \in Uuids, h \in Handles, ok \in BOOLEAN : EvtCreate(u, h, ok)
    \/ \E h \in Handles, ok \in BOOLEAN : EvtDelete(h, ok)

ServiceNext ==
    \/ \E t \in Threads, u \in Uuids, b \in BOOLEAN : characteristic_add(t, u, b)
    \/ \E t \in Threads : CharacteristicAddCheck(t)
    \/ \E t \in Threads : CharacteristicAddMark(t)
    \/ \E t \in Threads : CharacteristicAddRequest(t)
    \/ \E t \in Threads, b \in BOOLEAN : service_start(t, b)
    \/ \E u \in Uuids, h \in Handles, ok \in BOOLEAN : EvtAddChar(u, h, ok)
    \/ \E ok \in BOOLEAN : EvtStart(ok)

WaitNext ==
    \/ \E t \in Threads : OwnerWaitEnter(t)
    \/ \E t \in Threads : OwnerWaitRegister(t)
    \/ \E t \in Threads : OwnerWaitAction(t)
    \/ \E t \in Threads : CreationFailed(t)
    \/ \E t \in Threads : OwnerWaitWake(t)
    \/ \E t \in Threads : OwnerWaitTimeout(t)
    \/ \E t \in Threads : AddFinish(t)
    \/ \E t \in Threads : Return(t)

Objects == {"server", "profile", "service"}

OwnerInit ==
    /\ target \in Objects
    /\ Constructed

OwnerNext ==
    \/ Next
    \/ ProfileNext
    \/ ServiceNext
    \/ WaitNext

OwnerSpec == OwnerInit /\ [][OwnerNext]_vars

\* ---- the services of one profile
\* A profile holds the services of Handles, each constructed with its own
\* uuid, Notification_Manager and maps; its constructor has requested the
\* start of the service (service_start(false)).  Every service carries the
\* interface of the profile.

\* BLE_Service::handle_characteristic_create, on the service svc
handle_characteristic_create_of(svc, uuid, attr_handle, ok) ==
    IF uuid \notin svc.m_characteristics_creation
    THEN [svc EXCEPT !.m_notification_mgr = notify(@, uuid, "CHARACTERISTIC_ADD", FALSE)]
    ELSE IF count(svc.m_characteristics_uuid, uuid) # 0 \/ ~ok
    THEN [svc EXCEPT !.m_characteristics_creation = @ \ {uuid},
                     !.m_notification_mgr = notify(@, uuid, "CHARACTERISTIC_ADD", FALSE)]
    ELSE [svc EXCEPT !.m_characteristics_uuid = insert(@, uuid, attr_handle),
                     !.m_characteristics_handle = insert(@, attr_handle, uuid),
                     !.m_characteristics_creation = @ \ {uuid},
                     !.m_notification_mgr = notify(@, uuid, "CHARACTERISTIC_ADD", TRUE)]

\* BLE_Service::service_event_handler_gatts, on the service svc, for an event
\* that carries the interface of the profile
service_event_handler_gatts(svc, event, param) ==
    CASE event = "ESP_GATTS_START_EVT" ->
            [svc EXCEPT !.m_status = IF param.ok THEN "STARTED" ELSE @,
                        !.m_notification_mgr = notify(@, svc.uuid, "SERVICE_START", param.ok)]
      [] event = "ESP_GATTS_ADD_CHAR_EVT" ->
            handle_characteristic_create_of(svc, param.char_uuid, param.attr_handle, param.ok)
      [] OTHER -> svc

\* BLE_Profile::profile_event_handler_gatts, default case: every service of
\* the profile handles the event
profile_event_handler_gatts(svcs, event, param) ==
    [h \in DOMAIN svcs |-> service_event_handler_gatts(svcs[h], event, param)]

\* thread t is in no call on a service
Free(t) ==
    \A h \in Handles :
        /\ services[h].m_notification_mgr.slot[t] = "none"
        /\ \A r \in services[h].m_notification_mgr.registry : r.owner # t

\* BLE_Service::service_start on the service with handle h, the request
\* accepted; a blocking caller is registered and suspended
SvcStart(t, h, blocking) ==
    /\ Free(t)
    /\ stack.start[h] < MaxInFlight
    /\ blocking => ~pending(services[h].m_notification_mgr, services[h].uuid, "SERVICE_START")
    /\ stack' = [stack EXCEPT !.start[h] = @ + 1]
    /\ services' =
          IF service_start_waits(blocking)
          THEN [services EXCEPT ![h].m_notification_mgr =
                   wait_register(@, t, services[h].uuid, "SERVICE_START")]
          ELSE services
    /\ UNCHANGED <<server_vars, value_vars, char_vars, characteristics>>

\* BLE_Service::characteristic_add on the service with handle h, the uuid
\* free and the request accepted; a blocking caller is registered and suspended
SvcCharacteristicAdd(t, h, uuid, blocking) ==
    /\ Free(t)
    /\ count(services[h].m_characteristics_uuid, uuid) = 0
    /\ uuid \notin services[h].m_characteristics_creation
    /\ stack.add_char[h][uuid] < MaxInFlight
    /\ blocking => ~pending(services[h].m_notification_mgr, uuid, "CHARACTERISTIC_ADD")
    /\ stack' = [stack EXCEPT !.add_char[h][uuid] = @ + 1]
    /\ services' =
          [services EXCEPT
              ![h].m_characteristics_creation = @ \cup {uuid},
              ![h].m_notification_mgr =
                  IF blocking THEN wait_register(@, t, uuid, "CHARACTERISTIC_ADD") ELSE @]
    /\ UNCHANGED <<server_vars, value_vars, char_vars, characteristics>>

\* the wait() of thread t on the service with handle h gets its result
SvcWaitWake(t, h) ==
    /\ services[h].m_notification_mgr.slot[t] # "none"
    /\ services' = [services EXCEPT ![h].m_notification_mgr = wait_destroy(@, t)]
    /\ UNCHANGED <<server_vars, value_vars, char_vars, characteristics, stack>>

\* the wait() of thread t on the service with handle h times out; a
\* characteristic_add then erases its mark (src/ble/ble_service.cpp:171-180)
SvcWaitTimeout(t, h) ==
    /\ services[h].m_notification_mgr.slot[t] = "none"
    /\ \E r \in services[h].m_notification_mgr.registry :
         /\ r.owner = t
         /\ services' =
               [services EXCEPT
                   ![h].m_notification_mgr = wait_expire(@, t),
                   ![h].m_characteristics_creation =
                       IF r.op = "CHARACTERISTIC_ADD" THEN @ \ {r.key} ELSE @]
    /\ UNCHANGED <<server_vars, value_vars, char_vars, characteristics, stack>>

\* ESP_GATTS_START_EVT for the service with handle h
SvcEvtStart(h, ok) ==
    /\ stack.start[h] > 0
    /\ stack' = [stack EXCEPT !.start[h] = @ - 1]
    /\ services' = profile_event_handler_gatts(
                       services, "ESP_GATTS_START_EVT", [service_handle |-> h, ok |-> ok])
    /\ UNCHANGED <<server_vars, value_vars, char_vars, characteristics>>

\* the attribute handles the stack has given to no characteristic
FreeAttr ==
    {a \in Handles : \A h \in Handles : count(services[h].m_characteristics_handle, a) = 0}

\* ESP_GATTS_ADD_CHAR_EVT for the service with handle h, with an attribute
\* handle that is new when the stack reports success
SvcEvtAddChar(h, uuid, attr_handle, ok) ==
    /\ stack.add_char[h][uuid] > 0
    /\ IF ok THEN attr_handle \in FreeAttr ELSE attr_handle = NULLPTR
    /\ stack' = [stack EXCEPT !.add_char[h][uuid] = @ - 1]
    /\ services' = profile_event_handler_gatts(
                       services, "ESP_GATTS_ADD_CHAR_EVT",
                       [service_handle |-> h, char_uuid |-> uuid,
                        attr_handle |-> attr_handle, ok |-> ok])
    /\ UNCHANGED <<server_vars, value_vars, char_vars, characteristics>>

SvcNext ==
    \/ \E t \in Threads, h \in Handles, blocking \in BOOLEAN : SvcStart(t, h, blocking)
    \/ \E t \in Threads, h \in Handles, uuid \in Uuids, blocking \in BOOLEAN :
          SvcCharacteristicAdd(t, h, uuid, blocking)
    \/ \E t \in Threads, h \in Handles : SvcWaitWake(t, h)
    \/ \E t \in Threads, h \in Handles : SvcWaitTimeout(t, h)
    \/ \E h \in Handles, ok \in BOOLEAN : SvcEvtStart(h, ok)
    \/ \E h \in Handles, uuid \in Uuids, attr_handle \in Handles \cup {NULLPTR},
          ok \in BOOLEAN : SvcEvtAddChar(h, uuid, attr_handle, ok)

SvcSpec == Init /\ [][SvcNext]_svc_vars

\* ------------------------------------------------- claims on BLE_Value
MaxFrags == 2

\* the lists f1..fn of fragments a write is made of
FragLists == UNION {[1 .. n -> Data] : n \in 0 .. MaxFrags}

\* f1 ++ ... ++ fn
RECURSIVE flatten(_)
flatten(fs) == IF fs = <<>> THEN <<>> ELSE Head(fs) \o flatten(Tail(fs))

\* add(c, f1) ... add(c, fn) on the object v; ok: every add returned true
RECURSIVE add_all(_, _, _)
add_all(v, c, fs) ==
    IF fs = <<>>
    THEN [v |-> v, ok |-> TRUE]
    ELSE LET r == transaction_write_add(v, c, Head(fs))
             rest == add_all(r.v, c, Tail(fs))
         IN  [v |-> rest.v, ok |-> r.ret /\ rest.ok]

\* C11: from every reachable state, for every connection c and fragments
\* f1..fn: write start(c), add(c, f1) .. add(c, fn), commit(c) returns true and
\* leaves the value f1 ++ .. ++ fn; read start(c), advance(c, m) with m at
\* least that length then returns exactly those bytes.
C11_WriteRoundTrip ==
    \A c \in ConnIds, fs \in FragLists :
        LET added == add_all(transaction_write_start(Value, c).v, c, fs)
            commit == transaction_write_commit(added.v, c)
            started == transaction_read_start(commit.v, c).v
        IN  /\ added.ok
            /\ commit.ret = TRUE
            /\ to_raw(commit.v) = flatten(fs)
            /\ \A m \in Len(flatten(fs)) .. Len(flatten(fs)) + 1 :
                 transaction_read_advance(started, c, m).ret = flatten(fs)

\* a connection has written two different bytes in two fragments, committed,
\* and read them back whole
C11_Witness ==
    \E c \in ConnIds :
        /\ m_value = <<1, 2>>
        /\ c \notin DOMAIN m_transactions_write
        /\ c \in DOMAIN m_transactions_read
        /\ m_transactions_read[c] = [value |-> <<1, 2>>, offset |-> 2]
        /\ add_all(transaction_write_start(Value, c).v, c, <<<<1>>, <<2>>>>).v
              .m_transactions_write[c] = m_value

MaxReads == 3

\* the lists m1..mn of lengths asked for by successive advance calls
ReadLists == [1 .. MaxReads -> 0 .. MaxLen + 1]

\* advance(c, m1) .. advance(c, mn) on the object v, whose read transaction of
\* c was started on V and has returned the bytes got so far: every slice is
\* the next min(m, remaining) bytes of V, and a slice shorter than asked for
\* leaves the cursor at the end of the snapshot
RECURSIVE slices_ok(_, _, _, _, _)
slices_ok(v, c, V, got, ms) ==
    IF ms = <<>>
    THEN TRUE
    ELSE LET m == Head(ms)
             r == transaction_read_advance(v, c, m)
             all == got \o r.ret
         IN  /\ Len(r.ret) = Min(m, Len(V) - Len(got))
             /\ all = SubSeq(V, 1, Len(all))
             /\ Len(r.ret) < m => r.v.m_transactions_read[c].offset = Len(V)
             /\ slices_ok(r.v, c, V, all, Tail(ms))

\* C12: after read start(c) on a value V, successive advance(c, m_i) return
\* consecutive, non-overlapping slices of V of length min(m_i, remaining),
\* whose concatenation is a prefix of V; a slice shorter than m_i means the
\* cursor is at the end of the snapshot.
C12_ReadFragmentation ==
    \A c \in ConnIds, ms \in ReadLists :
        slices_ok(transaction_read_start(Value, c).v, c, m_value, <<>>, ms)

\* a read of two different bytes is half way: the next advance is short
C12_Witness ==
    \E c \in ConnIds :
        /\ c \in DOMAIN m_transactions_read
        /\ m_transactions_read[c] = [value |-> <<1, 2>>, offset |-> 1]
        /\ transaction_read_advance(Value, c, 2).ret = <<2>>

\* C13: write abort(c) discards the buffer of c and nothing else, so that
\* start(c); add(c, x); abort(c); commit(c) returns false with the value as it
\* was; abort(c), write or read, with no transaction open for c changes nothing.
C13_AbortIsolation ==
    \A c \in ConnIds :
        /\ \A x \in Data :
             LET added == transaction_write_add(transaction_write_start(Value, c).v, c, x)
                 aborted_w == transaction_write_abort(added.v, c).v
                 commit == transaction_write_commit(aborted_w, c)
             IN  /\ added.ret = TRUE
                 /\ aborted_w = [Value EXCEPT !.m_transactions_write = erase(@, c)]
                 /\ commit.ret = FALSE
                 /\ commit.v = aborted_w
                 /\ to_raw(commit.v) = m_value
        /\ transaction_write_abort(Value, c).v =
              [Value EXCEPT !.m_transactions_write = erase(@, c)]
        /\ c \notin DOMAIN m_transactions_write => transaction_write_abort(Value, c).v = Value
        /\ c \notin DOMAIN m_transactions_read => transaction_read_abort(Value, c).v = Value

\* a value is committed and c holds an unfinished write of other bytes, which
\* abort discards; another connection has a transaction open
C13_Witness ==
    \E c \in ConnIds :
        /\ m_value = <<1, 2>>
        /\ c \in DOMAIN m_transactions_write
        /\ m_transactions_write[c] = <<2>>
        /\ \E d \in ConnIds \ {c} : d \in DOMAIN m_transactions_read
        /\ LET a == transaction_write_abort(Value, c).v IN
           /\ c \notin DOMAIN a.m_transactions_write
           /\ transaction_write_commit(a, c).ret = FALSE

\* what the object v holds for connection c: its write buffer and its read
\* snapshot and cursor, each as a list that is empty when none is open
Of(v, c) ==
    [write |-> IF c \in DOMAIN v.m_transactions_write
               THEN <<v.m_transactions_write[c]>> ELSE <<>>,
     read |-> IF c \in DOMAIN v.m_transactions_read
              THEN <<v.m_transactions_read[c]>> ELSE <<>>]

\* the objects left by every transaction operation issued for connection c
AfterOps(v, c) ==
    {transaction_write_start(v, c).v, transaction_write_commit(v, c).v,
     transaction_write_abort(v, c).v, transaction_write_ongoing(v, c).v,
     transaction_read_start(v, c).v, transaction_read_abort(v, c).v}
    \cup {transaction_write_add(v, c, x).v : x \in Data}
    \cup {transaction_read_advance(v, c, m).v : m \in 0 .. MaxLen + 1}

\* C14: for connections A # B no transaction operation issued for B changes
\* whether A has a write or a read transaction open, A's write buffer, A's
\* read snapshot or A's read cursor.
C14_ConnectionIsolation ==
    \A A, B \in ConnIds :
        A # B => \A after \in AfterOps(Value, B) : Of(after, A) = Of(Value, A)

\* A and B both hold unfinished writes of different bytes: the commit of B
\* replaces the value and leaves the buffer of A
C14_Witness ==
    \E A, B \in ConnIds :
        /\ A # B
        /\ A \in DOMAIN m_transactions_write /\ m_transactions_write[A] = <<1>>
        /\ B \in DOMAIN m_transactions_write /\ m_transactions_write[B] = <<2, 1>>
        /\ LET after == transaction_write_commit(Value, B).v IN
           /\ after.m_value = <<2, 1>> /\ after.m_value # m_value
           /\ Of(after, A).write = <<<<1>>>>

\* the objects in which the value of v has been replaced by x: by the
\* application, or by a write of connection d committed
Replaced(v, x) ==
    {value_set(v, x).v}
    \cup {transaction_write_commit(
              transaction_write_add(transaction_write_start(v, d).v, d, x).v, d).v :
          d \in ConnIds}

\* C15: once read start(c) has been called, the advance calls that follow
\* return the bytes the value had at start, whatever commit (of another
\* connection or of c) or value_set replaces the value in between.
C15_SnapshotImmutable ==
    \A c \in ConnIds, x \in Data, m1, m2 \in 0 .. MaxLen :
        LET V == m_value
            first == transaction_read_advance(transaction_read_start(Value, c).v, c, m1)
            n1 == Min(m1, Len(V))
            n2 == Min(m2, Len(V) - n1)
        IN  /\ first.ret = SubSeq(V, 1, n1)
            /\ \A changed \in Replaced(first.v, x) :
                 /\ to_raw(changed) = x
                 /\ transaction_read_advance(changed, c, m2).ret = SubSeq(V, n1 + 1, n1 + n2)

\* the value was replaced while a read of c is half way: the next advance
\* returns the byte of the snapshot, not that of the value
C15_Witness ==
    \E c \in ConnIds :
        /\ c \in DOMAIN m_transactions_read
        /\ m_transactions_read[c] = [value |-> <<1, 2>>, offset |-> 1]
        /\ m_value = <<1, 1>>
        /\ transaction_read_advance(Value, c, 1).ret = <<2>>

\* C16: with no write transaction open for c, add(c, x) and commit(c) return
\* false; with no read transaction open for c, advance(c, m) returns empty;
\* each leaves the whole object (value, every open transaction) as it was and
\* opens nothing for c.
C16_AbsentTransaction ==
    \A c \in ConnIds :
        /\ c \notin DOMAIN m_transactions_write =>
             /\ \A x \in Data : transaction_write_add(Value, c, x) = Returns(Value, FALSE)
             /\ transaction_write_commit(Value, c) = Returns(Value, FALSE)
        /\ c \notin DOMAIN m_transactions_read =>
             \A m \in 0 .. MaxLen + 1 :
                 transaction_read_advance(Value, c, m) = Returns(Value, <<>>)

\* c has nothing open while another connection is writing and reading a
\* committed value
C16_Witness ==
    \E c, d \in ConnIds :
        /\ c # d
        /\ c \notin DOMAIN m_transactions_write /\ c \notin DOMAIN m_transactions_read
        /\ d \in DOMAIN m_transactions_write /\ m_transactions_write[d] # <<>>
        /\ d \in DOMAIN m_transactions_read
        /\ m_value # <<>>
        /\ transaction_write_add(Value, c, <<1>>).ret = FALSE
        /\ transaction_read_advance(Value, c, 1).ret = <<>>

\* C17: write start(c) leaves exactly one write transaction open for c, with
\* an empty buffer, whatever unfinished write c had, and changes nothing else
\* (the value, the other transactions); bytes added before a second start
\* never appear in the commit that follows it.
C17_StartReplaces ==
    \A c \in ConnIds :
        /\ transaction_write_start(Value, c).v =
              [Value EXCEPT !.m_transactions_write =
                   [j \in DOMAIN m_transactions_write \cup {c} |->
                        IF j = c THEN <<>> ELSE m_transactions_write[j]]]
        /\ \A x, y \in Data :
             LET once == transaction_write_add(transaction_write_start(Value, c).v, c, x).v
                 twice == transaction_write_add(transaction_write_start(once, c).v, c, y).v
                 commit == transaction_write_commit(twice, c)
             IN  /\ transaction_write_start(once, c).v.m_transactions_write[c] = <<>>
                 /\ commit.ret = TRUE
                 /\ to_raw(commit.v) = y

\* c holds an unfinished write; a second start and an add of another byte
\* commit that byte alone
C17_Witness ==
    \E c \in ConnIds :
        /\ c \in DOMAIN m_transactions_write
        /\ m_transactions_write[c] = <<1>>
        /\ m_value = <<2, 2>>
        /\ LET again == transaction_write_start(Value, c).v IN
           /\ again.m_transactions_write[c] = <<>>
           /\ again.m_value = m_value
           /\ transaction_write_commit(transaction_write_add(again, c, <<2>>).v, c).v.m_value
                 = <<2>>

\* C19: read start(c) leaves c with a read transaction on the value current
\* at that moment and the cursor at zero, also when a read transaction of c
\* was open with its cursor advanced, and changes nothing else; the next
\* advance(c, m) returns the first min(m, length) bytes of the current value.
C19_ReadStartResets ==
    \A c \in ConnIds :
        LET started == transaction_read_start(Value, c).v IN
        /\ started =
              [Value EXCEPT !.m_transactions_read =
                   [j \in DOMAIN m_transactions_read \cup {c} |->
                        IF j = c THEN [value |-> m_value, offset |-> 0]
                        ELSE m_transactions_read[j]]]
        /\ \A m \in 0 .. MaxLen + 1 :
             transaction_read_advance(started, c, m).ret
                 = SubSeq(m_value, 1, Min(m, Len(m_value)))

\* c is half way through a read of an older value: a new start reads the
\* current one from its first byte
C19_Witness ==
    \E c \in ConnIds :
        /\ c \in DOMAIN m_transactions_read
        /\ m_transactions_read[c] = [value |-> <<1, 1>>, offset |-> 1]
        /\ m_value = <<2, 1>>
        /\ transaction_read_advance(transaction_read_start(Value, c).v, c, 1).ret = <<2>>

\* C32: the read cursor stays within the snapshot: every open read transaction
\* has 0 <= offset <= size of its snapshot; an advance with any max_length,
\* 0 included, never moves the cursor back, moves it by exactly the number of
\* bytes it returns, and that number is min(max_length, size - offset) with
\* size - offset never below zero.
C32_CursorWithinSnapshot ==
    \A c \in DOMAIN m_transactions_read :
        LET transaction == m_transactions_read[c] IN
        /\ 0 <= transaction.offset
        /\ transaction.offset <= Len(transaction.value)
        /\ \A max_length \in 0 .. MaxLen + 1 :
              LET r == transaction_read_advance(Value, c, max_length)
                  after == r.v.m_transactions_read[c]
              IN  /\ after.value = transaction.value
                  /\ after.offset >= transaction.offset
                  /\ after.offset <= Len(after.value)
                  /\ after.offset = transaction.offset + Len(r.ret)
                  /\ Len(r.ret) = Min(max_length, Len(transaction.value) - transaction.offset)
                  /\ read_length(max_length, Len(transaction.value), transaction.offset)
                         = Len(r.ret)

\* a cursor strictly inside a snapshot, one at its end and one at the start of
\* an empty snapshot are all open at once or in turn: here the first two
C32_Witness ==
    \E c, d \in DOMAIN m_transactions_read :
        /\ 0 < m_transactions_read[c].offset
        /\ m_transactions_read[c].offset < Len(m_transactions_read[c].value)
        /\ m_transactions_read[d].offset = Len(m_transactions_read[d].value)
        /\ m_transactions_read[d].offset > 0

\* ---------------------------------------- claims on BLE_Characteristic
\* the execute-write event of connection c as the characteristic receives it
ExecWrite(c, flag) == [conn_id |-> c, exec_write_flag |-> flag]

\* C18: ongoing(c) is true exactly when a write transaction is open for c:
\* true after write start(c), false after the commit or the abort that
\* follows; and the characteristic does something on an execute-write event of
\* c (commit, write callback, response) only if ongoing(c) is true.
C18_OngoingGuardsExec ==
    \A c \in ConnIds :
        LET started == transaction_write_start(Value, c).v IN
        /\ transaction_write_ongoing(Value, c) =
              Returns(Value, c \in DOMAIN m_transactions_write)
        /\ transaction_write_ongoing(started, c).ret = TRUE
        /\ \A x \in Data :
             transaction_write_ongoing(transaction_write_add(started, c, x).v, c).ret = TRUE
        /\ transaction_write_ongoing(transaction_write_commit(started, c).v, c).ret = FALSE
        /\ transaction_write_ongoing(transaction_write_abort(started, c).v, c).ret = FALSE
        /\ \A flag \in ExecFlags, own_if \in BOOLEAN :
             LET r == characteristic_event_handler_gatts(
                          Value, "ESP_GATTS_EXEC_WRITE_EVT", own_if, ExecWrite(c, flag))
             IN  r # Handled(Value, <<>>) => transaction_write_ongoing(Value, c).ret = TRUE

\* connection 65535 has a prepared write open and another connected peer has
\* none: the execute-write event of the first is answered, that of the second
\* does nothing
C18_Witness ==
    \E d \in ConnIds \ {UINT16_MOD - 1} :
        LET c == UINT16_MOD - 1 IN
        /\ {c, d} \subseteq DOMAIN m_connections
        /\ c \in DOMAIN m_transactions_write /\ m_transactions_write[c] # m_value
        /\ d \notin DOMAIN m_transactions_write
        /\ m_callback_write
        /\ characteristic_event_handler_gatts(
               Value, "ESP_GATTS_EXEC_WRITE_EVT", TRUE,
               ExecWrite(c, "ESP_GATT_PREP_WRITE_EXEC")).out
             = <<Callback("callback_write"), Response(<<>>)>>
        /\ characteristic_event_handler_gatts(
               Value, "ESP_GATTS_EXEC_WRITE_EVT", TRUE,
               ExecWrite(d, "ESP_GATT_PREP_WRITE_EXEC")) = Handled(Value, <<>>)

\* the read request of connection c for this characteristic
ReadOf(c, is_long) ==
    [conn_id |-> c, handle |-> handle, is_long |-> is_long, need_rsp |-> TRUE]

\* C20: a read transaction ends when its cursor reaches the end of the
\* snapshot: once the read request whose fragment brings the cursor there has
\* been handled, no read transaction is open for the connection.
C20_ReadEndsAtSnapshotEnd ==
    \A c \in DOMAIN m_transactions_read :
        m_transactions_read[c].offset < Len(m_transactions_read[c].value)

\* C20, what the handlers do: a read request answered with fewer bytes than
\* MTU - 1 leaves no read transaction open for its connection, one answered
\* with MTU - 1 bytes leaves it open, whether or not the cursor is at the end;
\* the disconnect event leaves none open.
C20_ReadEndsAtShortRead ==
    \A c \in DOMAIN m_connections :
        /\ \A is_long \in BOOLEAN :
             LET r == characteristic_event_handler_gatts(
                          Value, "ESP_GATTS_READ_EVT", TRUE, ReadOf(c, is_long))
                 max_size == m_connections[c].mtu - ATT_FIELD_LENGTH_OPCODE
                 data == r.out[Len(r.out)].data
             IN  IF Len(data) < max_size
                 THEN c \notin DOMAIN r.v.m_transactions_read
                 ELSE (~is_long \/ c \in DOMAIN m_transactions_read) =>
                          c \in DOMAIN r.v.m_transactions_read
        /\ c \notin DOMAIN characteristic_event_handler_gatts(
                               Value, "ESP_GATTS_DISCONNECT_EVT", TRUE, [conn_id |-> c])
                           .v.m_transactions_read

\* the write request of connection c for this characteristic
WriteOf(c, is_prep, offset, value, need_rsp) ==
    [conn_id |-> c, handle |-> handle, is_prep |-> is_prep, offset |-> offset,
     value |-> value, need_rsp |-> need_rsp]

\* the prepared fragments that find no write transaction: a non-zero offset
\* and no transaction open for the connection
Orphans ==
    {p \in {WriteOf(c, TRUE, 1, value, TRUE) : c \in DOMAIN m_connections, value \in Data} :
        ~transaction_write_ongoing(Value, p.conn_id).ret}

\* C21: a prepared fragment with a non-zero offset of a connection that has no
\* write transaction open, whose add fails, is answered to the peer with an
\* error and not with a success response, and the value is unchanged.
C21_OrphanFragmentRejected ==
    \A p \in Orphans :
        LET r == characteristic_event_handler_gatts(Value, "ESP_GATTS_WRITE_EVT", TRUE, p)
        IN  /\ ~transaction_write_add(Value, p.conn_id, p.value).ret
            /\ \E i \in 1 .. Len(r.out) :
                   r.out[i].kind = "response" /\ r.out[i].status # "ESP_GATT_OK"
            /\ to_raw(r.v) = m_value

\* C21, what the handler does: the add fails, nothing of the value object
\* changes, no callback runs, and the one response sent is a success that
\* echoes the fragment.
C21_OrphanFragmentAccepted ==
    \A p \in Orphans :
        LET r == characteristic_event_handler_gatts(Value, "ESP_GATTS_WRITE_EVT", TRUE, p)
        IN  /\ ~transaction_write_add(Value, p.conn_id, p.value).ret
            /\ r.v = Value
            /\ r.out = <<Response(p.value)>>
            /\ r.out[1].status = "ESP_GATT_OK"

\* such a fragment can arrive
C21_OrphanArrives == Orphans # {}

\* the unprepared writes of the connections that have no write transaction open
Unprepared ==
    {p \in {WriteOf(c, FALSE, offset, W, need_rsp) :
                c \in DOMAIN m_connections, offset \in 0 .. 1, W \in Data,
                need_rsp \in BOOLEAN} :
        ~transaction_write_ongoing(Value, p.conn_id).ret}

\* C22: an unprepared write of bytes W from a connection with no write
\* transaction open commits at once: when its handler returns the value is
\* exactly W and no write transaction is open for the connection, so that an
\* execute-write event that follows finds nothing to commit.
C22_UnpreparedCommits ==
    \A p \in Unprepared :
        LET r == characteristic_event_handler_gatts(Value, "ESP_GATTS_WRITE_EVT", TRUE, p)
            exec == characteristic_event_handler_gatts(
                        r.v, "ESP_GATTS_EXEC_WRITE_EVT", TRUE,
                        ExecWrite(p.conn_id, "ESP_GATT_PREP_WRITE_EXEC"))
        IN  /\ to_raw(r.v) = p.value
            /\ p.conn_id \notin DOMAIN r.v.m_transactions_write
            /\ ~transaction_write_ongoing(r.v, p.conn_id).ret
            /\ r.v.m_transactions_write = m_transactions_write
            /\ exec = Handled(r.v, <<>>)

\* two bytes are the value, a connection without a write transaction is there
\* to overwrite them with an unprepared write, and another connection has
\* prepared fragments waiting
C22_Witness ==
    /\ m_value = <<2, 1>>
    /\ \E p \in Unprepared : p.value # m_value /\ p.value # <<>>
    /\ \E c \in DOMAIN m_transactions_write : m_transactions_write[c] # <<>>

\* the value after an operation of BLE_Value is the value before it
Keeps(r) == to_raw(r.v) = m_value

\* C23: the value changes only in a successful commit (or a value_set of the
\* application). Write start, add, write abort, read start, advance and abort,
\* a prepared write request, a read request and the disconnect event leave it
\* as it is; a commit, called directly or by the execute-write event, replaces
\* it by the whole buffer of the connection and fails, changing nothing, when
\* the connection has none.
C23_AppliedOnlyOnCommit ==
    /\ \A c \in ConnIds :
         /\ Keeps(transaction_write_start(Value, c))
         /\ Keeps(transaction_write_abort(Value, c))
         /\ Keeps(transaction_read_start(Value, c))
         /\ Keeps(transaction_read_abort(Value, c))
         /\ \A data \in Data : Keeps(transaction_write_add(Value, c, data))
         /\ \A max_length \in 0 .. MaxLen + 1 :
                Keeps(transaction_read_advance(Value, c, max_length))
         /\ LET commit == transaction_write_commit(Value, c)
                exec == characteristic_event_handler_gatts(
                            Value, "ESP_GATTS_EXEC_WRITE_EVT", TRUE,
                            ExecWrite(c, "ESP_GATT_PREP_WRITE_EXEC"))
            IN  IF c \in DOMAIN m_transactions_write
                THEN /\ commit.ret
                     /\ to_raw(commit.v) = m_transactions_write[c]
                     /\ to_raw(exec.v) = m_transactions_write[c]
                ELSE /\ ~commit.ret
                     /\ commit.v = Value
                     /\ exec.v = Value
    /\ \A c \in DOMAIN m_connections :
         /\ Keeps(characteristic_event_handler_gatts(
                      Value, "ESP_GATTS_DISCONNECT_EVT", TRUE, [conn_id |-> c]))
         /\ \A is_long \in BOOLEAN :
                Keeps(characteristic_event_handler_gatts(
                          Value, "ESP_GATTS_READ_EVT", TRUE, ReadOf(c, is_long)))
         /\ \A offset \in 0 .. 1, value \in Data, need_rsp \in BOOLEAN :
                Keeps(characteristic_event_handler_gatts(
                          Value, "ESP_GATTS_WRITE_EVT", TRUE,
                          WriteOf(c, TRUE, offset, value, need_rsp)))

\* C23, over the steps: a step that changes the value is a value_set, an
\* execute-write event that commits the buffer of its connection and closes its
\* transaction, or an unprepared write, which leaves its bytes as the value and
\* no transaction of its connection.
C23_ValueChangesInCommit ==
    [][m_value' # m_value =>
          \/ \E x \in Data : CharValueSet(x)
          \/ \E c \in DOMAIN m_transactions_write :
                 /\ m_value' = m_transactions_write[c]
                 /\ c \notin DOMAIN m_transactions_write'
          \/ \E c \in DOMAIN m_connections, W \in Data :
                 /\ m_value' = W
                 /\ m_transactions_write' = erase(m_transactions_write, c)]_gatt_vars

\* a connection has prepared two fragments that differ from the value, which
\* is still the one two-byte value committed before
C23_Witness ==
    \E c \in DOMAIN m_transactions_write :
        /\ c \in DOMAIN m_connections
        /\ Len(m_transactions_write[c]) = 2
        /\ Len(m_value) = 2
        /\ m_transactions_write[c] # m_value

\* in what a handler called and sent, every callback comes before every response
CallbackFirst(out) ==
    \A i, j \in 1 .. Len(out) :
        (out[i].kind # "response" /\ out[j].kind = "response") => i < j

\* the write requests of connection c for this characteristic
Writes(c) ==
    {WriteOf(c, is_prep, offset, value, need_rsp) :
        is_prep \in BOOLEAN, offset \in 0 .. 1, value \in Data, need_rsp \in BOOLEAN}

\* C26: for every read, write and execute-write request that completes an
\* operation on the characteristic (an unprepared write, an execute-write of a
\* connection with a write transaction, a read that ends its transaction), the
\* registered callback is executed before the response for that request is
\* sent: the handler runs the callback first and sends the response last.
C26_CallbackBeforeResponse ==
    \A c \in DOMAIN m_connections :
        /\ \A p \in Writes(c) :
             LET r == characteristic_event_handler_gatts(Value, "ESP_GATTS_WRITE_EVT", TRUE, p)
             IN  /\ CallbackFirst(r.out)
                 /\ (~p.is_prep /\ m_callback_write /\ p.need_rsp) =>
                        r.out = <<Callback("callback_write"), Response(p.value)>>
        /\ \A flag \in ExecFlags :
             LET r == characteristic_event_handler_gatts(
                          Value, "ESP_GATTS_EXEC_WRITE_EVT", TRUE, ExecWrite(c, flag))
             IN  /\ CallbackFirst(r.out)
                 /\ (transaction_write_ongoing(Value, c).ret /\ m_callback_write) =>
                        r.out = <<Callback("callback_write"), Response(<<>>)>>
        /\ \A is_long \in BOOLEAN :
             LET r == characteristic_event_handler_gatts(
                          Value, "ESP_GATTS_READ_EVT", TRUE, ReadOf(c, is_long))
             IN  /\ CallbackFirst(r.out)
                 /\ (c \in DOMAIN m_transactions_read /\ m_callback_read
                     /\ c \notin DOMAIN r.v.m_transactions_read) =>
                        /\ Len(r.out) = 2
                        /\ r.out[1] = Callback("callback_read")
                        /\ r.out[2].kind = "response"

\* both callbacks are registered, a connection has a prepared write waiting for
\* its execute-write and a connection has a long read open whose next fragment
\* is the last
C26_Witness ==
    /\ m_callback_read
    /\ m_callback_write
    /\ \E c \in DOMAIN m_connections :
         /\ c \in DOMAIN m_transactions_write
         /\ m_transactions_write[c] # <<>>
    /\ \E c \in DOMAIN m_connections :
         /\ c \in DOMAIN m_transactions_read
         /\ m_transactions_read[c].offset # 0
         /\ c \notin DOMAIN characteristic_event_handler_gatts(
                                Value, "ESP_GATTS_READ_EVT", TRUE, ReadOf(c, TRUE))
                            .v.m_transactions_read

\* how many times a handler ran the read callback
ReadCallbacks(out) == Cardinality({i \in 1 .. Len(out) : out[i].kind = "callback_read"})

\* the read transaction the request of c works on: the one it starts when it
\* is not a long read, else the one that is open, if any
ReadTransaction(c, is_long) ==
    IF ~is_long
    THEN <<[value |-> m_value, offset |-> 0]>>
    ELSE IF c \in DOMAIN m_transactions_read THEN <<m_transactions_read[c]>> ELSE <<>>

\* C27: the read callback is executed whenever a read operation is completed
\* and only then: with a callback registered, the handler of a read request
\* invokes it exactly once when the request completes its read transaction
\* (its fragment brings the cursor to the end of the snapshot), and not at all
\* for an intermediate fragment or for a request that has no open read
\* transaction.
C27_ReadCallbackOncePerTransaction ==
    \A c \in DOMAIN m_connections, is_long \in BOOLEAN :
        LET r == characteristic_event_handler_gatts(
                     Value, "ESP_GATTS_READ_EVT", TRUE, ReadOf(c, is_long))
            txn == ReadTransaction(c, is_long)
            data == r.out[Len(r.out)].data
            completes == /\ txn # <<>>
                         /\ txn[1].offset + Len(data) = Len(txn[1].value)
        IN  m_callback_read =>
                ReadCallbacks(r.out) = (IF completes THEN 1 ELSE 0)

\* C27, what the handler does: with a callback registered it is invoked once
\* exactly when the request is answered with fewer bytes than MTU - 1, whether
\* or not a read transaction was open, and not when the answer has MTU - 1
\* bytes, whether or not the cursor has reached the end; without a callback
\* registered nothing is invoked.
C27_ReadCallbackAtShortRead ==
    \A c \in DOMAIN m_connections, is_long \in BOOLEAN :
        LET r == characteristic_event_handler_gatts(
                     Value, "ESP_GATTS_READ_EVT", TRUE, ReadOf(c, is_long))
            max_size == m_connections[c].mtu - ATT_FIELD_LENGTH_OPCODE
            data == r.out[Len(r.out)].data
        IN  ReadCallbacks(r.out) = (IF m_callback_read /\ Len(data) < max_size THEN 1 ELSE 0)

\* a read callback is registered and a connected peer without a read
\* transaction sends a long read
C27_LongReadWithoutTransaction ==
    \E c \in DOMAIN m_connections :
        /\ m_callback_read
        /\ c \notin DOMAIN m_transactions_read
        /\ ReadCallbacks(characteristic_event_handler_gatts(
                             Value, "ESP_GATTS_READ_EVT", TRUE, ReadOf(c, TRUE)).out) = 1

\* a read callback is registered and the fragment just sent to a peer has
\* brought the cursor to the end of the snapshot, the transaction being open
C27_CompletedWithoutCallback ==
    \E c \in DOMAIN m_transactions_read :
        /\ m_callback_read
        /\ m_transactions_read[c].value # <<>>
        /\ m_transactions_read[c].offset = Len(m_transactions_read[c].value)

\* C30: every read response for a connection known to the server carries at
\* most MTU - 1 bytes, MTU being the value recorded for the connection: the
\* connect event records 23, an MTU event for the connection replaces the
\* recorded value and only that one, and an MTU event for an unknown
\* connection creates no record.
C30_ResponseWithinMtu ==
    /\ \A c \in DOMAIN m_connections :
         /\ m_connections[c].mtu \in Mtus
         /\ \A is_long \in BOOLEAN :
              LET r == characteristic_event_handler_gatts(
                           Value, "ESP_GATTS_READ_EVT", TRUE, ReadOf(c, is_long))
              IN  \A i \in 1 .. Len(r.out) :
                      r.out[i].kind = "response" =>
                          Len(r.out[i].data) <= m_connections[c].mtu - 1
         /\ \A mtu \in Mtus :
              LET updated == handle_connection_mtu_update(m_connections, c, mtu)
              IN  /\ DOMAIN updated = DOMAIN m_connections
                  /\ updated[c].mtu = mtu
                  /\ \A d \in DOMAIN m_connections \ {c} : updated[d] = m_connections[d]
    /\ \A c \in ConnIds \ DOMAIN m_connections :
         /\ handle_connection_new(m_connections, c)[c].mtu = MTU_DEFAULT_BLE_CLIENT
         /\ \A mtu \in Mtus :
              handle_connection_mtu_update(m_connections, c, mtu) = m_connections

\* C30 over the steps: a connection enters the records with the MTU 23, and the
\* MTU recorded for a connection changes only in the MTU event of that
\* connection
C30_MtuChangesOnlyByEvent ==
    [][\A c \in DOMAIN m_connections' :
          IF c \in DOMAIN m_connections
          THEN m_connections'[c] # m_connections[c] =>
                   \E mtu \in Mtus : MtuUpdate(c, mtu)
          ELSE m_connections'[c].mtu = MTU_DEFAULT_BLE_CLIENT /\ Connect(c)]_gatt_vars

\* a peer that negotiated the MTU 2 is in the middle of a long read of a value
\* of two bytes, and another connection id is unknown to the server
C30_Witness ==
    /\ Len(m_value) = MaxLen
    /\ \E c \in DOMAIN m_transactions_read :
         /\ c \in DOMAIN m_connections
         /\ m_connections[c].mtu = ATT_FIELD_LENGTH_OPCODE + 1
         /\ m_transactions_read[c].value = m_value
         /\ m_transactions_read[c].offset = 1
    /\ ConnIds \ DOMAIN m_connections # {}

\* the disconnect event of connection c as the characteristic receives it
DisconnectOf(c) ==
    characteristic_event_handler_gatts(Value, "ESP_GATTS_DISCONNECT_EVT", TRUE, [conn_id |-> c])

\* C31: connection loss ends the transactions of that connection: after the
\* characteristic has handled the disconnect event of c it holds neither a
\* read nor a write transaction for c, the value is unchanged (a prepared write
\* that was not committed is discarded, not applied), the transactions of the
\* other connections are unchanged, and nothing is called or sent.
C31_DisconnectEndsTransactions ==
    \A c \in ConnIds :
        LET r == DisconnectOf(c) IN
        /\ c \notin DOMAIN r.v.m_transactions_read
        /\ c \notin DOMAIN r.v.m_transactions_write
        /\ to_raw(r.v) = m_value
        /\ \A d \in ConnIds \ {c} : Of(r.v, d) = Of(Value, d)
        /\ r.out = <<>>
        /\ transaction_write_commit(r.v, c) = Returns(r.v, FALSE)

\* C31 over the steps: the disconnect event of a connected peer removes its
\* record and leaves no transaction of it, with the value as it was
C31_DisconnectStep ==
    [][\A c \in DOMAIN m_connections :
          c \notin DOMAIN m_connections' =>
              /\ c \notin DOMAIN m_transactions_read'
              /\ c \notin DOMAIN m_transactions_write'
              /\ m_value' = m_value]_gatt_vars

\* a connected peer has prepared bytes that differ from the value and is in
\* the middle of a read, and the other peer has a transaction open
C31_Witness ==
    \E c \in DOMAIN m_connections :
        /\ c \in DOMAIN m_transactions_write
        /\ m_transactions_write[c] # <<>>
        /\ m_transactions_write[c] # m_value
        /\ c \in DOMAIN m_transactions_read
        /\ m_transactions_read[c].offset # 0
        /\ m_value # <<>>
        /\ DisconnectOf(c).v # Value

\* the execute-write event of connection c with a flag, as the characteristic
\* that owns the interface receives it
ExecOf(c, flag) ==
    characteristic_event_handler_gatts(Value, "ESP_GATTS_EXEC_WRITE_EVT", TRUE, ExecWrite(c, flag))

\* C33: an execute-write event that carries the cancel flag discards the
\* prepared buffer of that connection without changing the value and without
\* invoking the write callback; only the execute flag commits.
C33_CancelDiscards ==
    \A c \in DOMAIN m_transactions_write :
        LET r == ExecOf(c, "ESP_GATT_PREP_WRITE_CANCEL") IN
        /\ c \notin DOMAIN r.v.m_transactions_write
        /\ to_raw(r.v) = m_value
        /\ \A i \in 1 .. Len(r.out) : r.out[i].kind # "callback_write"

\* what the handler does with the flag: nothing. The event with the cancel
\* flag is handled as the one with the execute flag, and commits the buffer
C33_FlagIgnored ==
    \A c \in ConnIds :
        /\ ExecOf(c, "ESP_GATT_PREP_WRITE_CANCEL") = ExecOf(c, "ESP_GATT_PREP_WRITE_EXEC")
        /\ c \in DOMAIN m_transactions_write =>
              LET r == ExecOf(c, "ESP_GATT_PREP_WRITE_CANCEL") IN
              /\ to_raw(r.v) = m_transactions_write[c]
              /\ c \notin DOMAIN r.v.m_transactions_write
              /\ r.out = IF m_callback_write
                         THEN <<Callback("callback_write"), Response(<<>>)>>
                         ELSE <<Response(<<>>)>>

\* a cancelled prepared write is applied and announced to the application
C33_CancelCommitted ==
    \E c \in DOMAIN m_connections :
        /\ c \in DOMAIN m_transactions_write
        /\ m_transactions_write[c] # m_value
        /\ m_callback_write
        /\ to_raw(ExecOf(c, "ESP_GATT_PREP_WRITE_CANCEL").v) # m_value
        /\ ExecOf(c, "ESP_GATT_PREP_WRITE_CANCEL").out[1] = Callback("callback_write")

\* the unprepared writes of connections that have a prepared write in flight
Interleaved ==
    {p \in {WriteOf(c, FALSE, 0, W, need_rsp) :
                c \in DOMAIN m_connections, W \in Data, need_rsp \in BOOLEAN} :
        /\ transaction_write_ongoing(Value, p.conn_id).ret
        /\ m_transactions_write[p.conn_id] # <<>>}

\* C34: an unprepared write of connection c that arrives while a prepared
\* write of c is in flight does not discard or alter the prepared buffer: an
\* execute-write event of c that follows still finds the transaction open and
\* commits the fragments prepared so far.
C34_PreparedSurvivesUnprepared ==
    \A p \in Interleaved :
        LET r == characteristic_event_handler_gatts(Value, "ESP_GATTS_WRITE_EVT", TRUE, p)
            exec == characteristic_event_handler_gatts(
                        r.v, "ESP_GATTS_EXEC_WRITE_EVT", TRUE,
                        ExecWrite(p.conn_id, "ESP_GATT_PREP_WRITE_EXEC"))
        IN  /\ transaction_write_ongoing(r.v, p.conn_id).ret
            /\ r.v.m_transactions_write[p.conn_id] = m_transactions_write[p.conn_id]
            /\ to_raw(exec.v) = m_transactions_write[p.conn_id]

\* what the handler does: the unprepared write restarts the transaction of the
\* connection, commits its own bytes and leaves no transaction, so that the
\* execute-write event that follows does nothing and the prepared fragments
\* are lost; the transactions of the other connections are kept
C34_UnpreparedReplacesPrepared ==
    \A p \in Interleaved :
        LET r == characteristic_event_handler_gatts(Value, "ESP_GATTS_WRITE_EVT", TRUE, p)
            exec == characteristic_event_handler_gatts(
                        r.v, "ESP_GATTS_EXEC_WRITE_EVT", TRUE,
                        ExecWrite(p.conn_id, "ESP_GATT_PREP_WRITE_EXEC"))
        IN  /\ to_raw(r.v) = p.value
            /\ r.v.m_transactions_write = erase(m_transactions_write, p.conn_id)
            /\ exec = Handled(r.v, <<>>)

\* a connection has prepared two fragments and sends an unprepared write of
\* other bytes
C34_PreparedLost ==
    \E p \in Interleaved :
        /\ Len(m_transactions_write[p.conn_id]) = 2
        /\ p.value # <<>>
        /\ p.value # m_transactions_write[p.conn_id]

\* ------------------------------- claims on BLE_Profile and BLE_Service
\* the calls of wait() in the sources: the six functions a caller thread runs
InWait(t) ==
    \/ pc[t] \in {"wait_locked", "wait_action", "wait_block"}
    \/ pc[t] = "creation_failed" /\ arg_blocking[t]
Suspended(t) == pc[t] = "wait_block" /\ Slot(t) = "none"

\* C24: the event context never suspends in wait(): whatever event it
\* handles for the server, a profile or a service, it is never inside a
\* blocking wait (the service constructed by the service-creation handler is
\* started without blocking); the waits in progress are those of caller threads.
C24_EventContextNeverWaits ==
    /\ ~evt_wait
    /\ \A r \in Registry : r.owner \in Threads /\ InWait(r.owner)

\* the service-creation handler has constructed the service, put it into the
\* maps and notified the caller, who is still blocked in its wait
C24_Witness ==
    \E t \in Threads :
        /\ target = "profile"
        /\ cur[t].fn = "service_add"
        /\ pc[t] = "wait_block"
        /\ Slot(t) = "true"
        /\ count(m_services_uuid, cur[t].id) # 0
        /\ m_services_uuid[cur[t].id] # NULLPTR

\* the steps of a blocking call from its entry into wait() to its wake-up: the
\* registration, the call of the action and the suspension
Blocking_wait(t) == pc[t] \in {"wait_enter", "wait_locked", "wait_action", "wait_block"}

Retrievable(c) ==
    CASE c.fn = "profile_add" -> profile_get(c.id)
      [] c.fn = "service_add" -> service_get(c.id)
      [] c.fn = "characteristic_add" -> characteristic_get(c.id)
      [] OTHER -> FALSE

\* thread t is in a blocking profile_add, service_add or characteristic_add
BlockingAdd(t) ==
    \/ cur[t].fn = "profile_add"
    \/ cur[t].fn \in Adds /\ arg_blocking[t]

\* the step in which the blocking add of t returns true
ReturnsTrue(t) ==
    /\ BlockingAdd(t)
    /\ \/ pc[t] = "wait_block" /\ pc'[t] = "idle" /\ wait_result'[t] = "true"
       \/ pc[t] = "after_wait" /\ pc'[t] = "return" /\ returned'[t] = "true"

\* the wait of t has been completed with true and the call has not returned
NotifiedTrue(t) ==
    /\ BlockingAdd(t)
    /\ \/ pc[t] \in {"wait_action", "wait_block"} /\ Slot(t) = "true"
       \/ pc[t] = "after_wait" /\ wait_result[t] = "true"

\* a step of a remove that erases the object call c asked for: profile_remove
\* of the profile, or the last section of service_remove of the service
RemoveErases(c) ==
    \/ /\ c.fn = "profile_add"
       /\ \E o \in Threads :
            \/ \E b \in BOOLEAN : profile_remove(o, c.id, b)
            \/ /\ cur[o] = [fn |-> "profile_remove", id |-> c.id]
               /\ pc[o] # "idle"
               /\ pc'[o] = "idle"
    \/ /\ c.fn = "service_add"
       /\ \E o \in Threads : cur[o].id = c.id /\ ServiceRemoveFinish(o)

\* the map of the profile holds a null entry under the UUID: the handler's
\* insert does not replace it
NullService(uuid) == count(m_services_uuid, uuid) # 0 /\ m_services_uuid[uuid] = NULLPTR
NullEntry(c) == c.fn = "service_add" /\ NullService(c.id)

\* a step of a service_remove that runs its deletion_function
RemoveRequests(uuid) ==
    \E o \in Threads :
        /\ cur[o].fn \in {"service_remove", "service_remove_handle"}
        /\ cur[o].id = uuid
        /\ pc[o] \in {"remove_request", "wait_action"}
        /\ pc'[o] # pc[o]

C28_RemovedBeforeReturn ==
    \E t \in Threads :
        /\ cur[t].fn = "service_add"
        /\ arg_blocking[t]
        /\ pc[t] = "return"
        /\ returned[t] = "true"
        /\ ~service_get(cur[t].id)

\* thread t is inside wait() or has a PendingWait registered
Waits(t) == Blocking_wait(t) \/ Owned(t) # {}

\* C29: service_remove(handle, blocking = false) does not suspend the caller:
\* it issues the delete request without registering a wait and returns without
\* waiting for the deletion event, as service_remove(uuid, blocking = false)
\* does.
C29_HandleRemoveNonBlocking ==
    \A t \in Threads :
        (cur[t].fn = "service_remove_handle" /\ ~arg_blocking[t]) => ~Waits(t)

\* C29, what the two forms do: service_remove(uuid, false) never enters wait()
\* and registers nothing; service_remove(handle, blocking) runs the steps of
\* service_remove(uuid, true) whatever its blocking argument, so it issues its
\* request only as the action of a wait.
C29_UuidRemoveNonBlocking ==
    \A t \in Threads :
        /\ (cur[t].fn = "service_remove" /\ ~arg_blocking[t]) => ~Waits(t)
        /\ cur[t].fn = "service_remove_handle" => pc[t] # "remove_request"

\* a caller of service_remove(handle, false) is suspended in wait(), its
\* PendingWait registered and the delete request issued
C29_HandleRemoveSuspended ==
    \E t \in Threads :
        /\ cur[t].fn = "service_remove_handle"
        /\ ~arg_blocking[t]
        /\ Suspended(t)
        /\ PendingWait(cur[t].id, "SERVICE_REMOVE", t) \in Registry
        /\ \E h \in Handles : hw_delete[h] > 0

\* ------------------------- claims on the characteristics of one profile
\* the execute-write event of connection c as the profile forwards it
ExecForwarded(c, flag) ==
    forward_characteristics(characteristics, "ESP_GATTS_EXEC_WRITE_EVT",
                            ExecWrite(c, flag), Handles)

\* the responses among what handlers called and sent
Responses(out) == {i \in 1 .. Len(out) : out[i].kind = "response"}

\* the characteristics that hold a write transaction of connection c
Writing(c) == {h \in Handles : c \in DOMAIN characteristics[h].m_transactions_write}

\* C35: every execute-write event delivered to a profile is answered with
\* exactly one response to the peer, however many characteristics of the
\* profile (none, one or several) hold a write transaction of the connection.
C35_OneResponsePerExec ==
    \A c \in DOMAIN m_connections, flag \in ExecFlags :
        Cardinality(Responses(ExecForwarded(c, flag).out)) = 1

\* what the code does: every characteristic that holds a write transaction of
\* the connection commits and sends a response of its own, so that the peer
\* gets as many responses as characteristics it prepared a write on
C35_ResponsePerCharacteristic ==
    \A c \in DOMAIN m_connections, flag \in ExecFlags :
        LET r == ExecForwarded(c, flag) IN
        /\ Cardinality(Responses(r.out)) = Cardinality(Writing(c))
        /\ \A h \in Handles :
              /\ c \notin DOMAIN r.v[h].m_transactions_write
              /\ r.v[h].m_value = IF h \in Writing(c)
                                  THEN characteristics[h].m_transactions_write[c]
                                  ELSE characteristics[h].m_value

\* a peer has prepared a write on two characteristics
C35_TwoResponses ==
    \E c \in DOMAIN m_connections :
        /\ Cardinality(Writing(c)) = 2
        /\ Cardinality(Responses(ExecForwarded(c, "ESP_GATT_PREP_WRITE_EXEC").out)) = 2

\* a connected peer with nothing prepared, while another peer has
C35_NoResponse ==
    \E c, d \in DOMAIN m_connections :
        /\ Writing(c) = {}
        /\ Writing(d) # {}
        /\ ExecForwarded(c, "ESP_GATT_PREP_WRITE_EXEC").out = <<>>

\* C36: the two service maps of a profile index exactly the same services:
\* every service of m_services_uuid is in m_services_handle under its own
\* handle, and every service of m_services_handle is in m_services_uuid under
\* its own uuid.
C36_ServiceMapsAgree ==
    /\ \A uuid \in DOMAIN m_services_uuid :
          /\ m_services_uuid[uuid] # NULLPTR
          /\ m_services_uuid[uuid] \in DOMAIN m_services_handle
          /\ m_services_handle[m_services_uuid[uuid]] = uuid
    /\ \A service_handle \in DOMAIN m_services_handle :
          /\ m_services_handle[service_handle] \in DOMAIN m_services_uuid
          /\ m_services_uuid[m_services_handle[service_handle]] = service_handle

\* what holds of the two maps: a service of m_services_uuid is in
\* m_services_handle under its own handle
C36_UuidIndexedByHandle ==
    \A uuid \in DOMAIN m_services_uuid :
        m_services_uuid[uuid] # NULLPTR =>
            /\ m_services_uuid[uuid] \in DOMAIN m_services_handle
            /\ m_services_handle[m_services_uuid[uuid]] = uuid

\* two creation events of one uuid were handled: the second service is in
\* m_services_handle only
C36_HandleOnly ==
    \E service_handle \in DOMAIN m_services_handle :
        /\ m_services_handle[service_handle] \in DOMAIN m_services_uuid
        /\ m_services_uuid[m_services_handle[service_handle]] \notin {service_handle, NULLPTR}

\* a remove has left a null entry in m_services_uuid and nothing in
\* m_services_handle
C36_NullEntryOnly ==
    /\ \E uuid \in DOMAIN m_services_uuid : m_services_uuid[uuid] = NULLPTR
    /\ DOMAIN m_services_handle = {}

\* thread t has returned false from a blocking service_add of uuid whose wait
\* gave no result, and no other call of service_add is in progress or has
\* left its mark in m_services_creation
AddTimedOut(t, uuid) ==
    /\ pc[t] = "return"
    /\ cur[t] = [fn |-> "service_add", id |-> uuid]
    /\ arg_blocking[t]
    /\ wait_result[t] = NULLOPT
    /\ returned[t] = "false"
    /\ uuid \notin m_services_creation
    /\ \A o \in Threads \ {t} : cur[o].fn # "service_add"

\* C37: after a blocking service_add(uuid) has returned false, no service
\* with that uuid becomes present in the profile unless service_add is called
\* again: a creation event that arrives after the wait timed out does not
\* create the service.
C37_NoServiceAfterFalse ==
    [][\A t \in Threads, uuid \in Uuids :
          (AddTimedOut(t, uuid) /\ uuid \notin DOMAIN m_services_uuid)
              => uuid \notin DOMAIN m_services_uuid']_vars

\* what holds in a service: a creation event of a uuid that is not marked in
\* m_characteristics_creation creates no characteristic
C37_UnmarkedCharacteristicNotCreated ==
    [][\A uuid \in Uuids :
          (uuid \notin m_characteristics_creation /\ uuid \notin DOMAIN m_characteristics_uuid)
              => uuid \notin DOMAIN m_characteristics_uuid']_vars

\* the service of a service_add that returned false is in the profile
C37_LateService ==
    \E t \in Threads, uuid \in Uuids :
        /\ AddTimedOut(t, uuid)
        /\ service_get(uuid)
        /\ m_services_uuid[uuid] \in DOMAIN m_services_handle
        /\ \A o \in Threads \ {t} : cur[o] = NoCall

\* thread t, in service_remove(uuid), takes the step that reads
\* m_services_uuid[uuid]->handle: the deletion function, called directly or as
\* the action of the wait, or the erase of the last scope
ReadsEntry(t) ==
    /\ cur[t].fn = "service_remove"
    /\ pc[t] \in {"remove_request", "wait_action", "remove_finish"}
    /\ pc'[t] # pc[t] \/ aborted' # aborted

\* C39: under any interleaving of two concurrent service_remove(uuid) of the
\* same service with the deletion event, each call reads the map entry of the
\* service only while that entry is present, never one the other call erased,
\* and the service ends removed from both maps.
C39_ReadsPresentEntry ==
    [][\A t \in Threads :
          /\ ReadsEntry(t) => service_get(cur[t].id)
          /\ (cur[t].fn = "service_remove" /\ pc'[t] = "return" /\ pc[t] # "return")
                => /\ cur[t].id \notin DOMAIN m_services_uuid'
                   /\ \A h \in DOMAIN m_services_handle' :
                          m_services_handle'[h] # cur[t].id]_vars

\* two calls of service_remove(uuid) are past their check and one has erased
\* the entry the other is about to read
C39_ErasedEntryRead ==
    \E t, o \in Threads :
        /\ t # o
        /\ cur[t] = cur[o]
        /\ cur[t].fn = "service_remove"
        /\ pc[o] = "return"
        /\ pc[t] \in {"remove_request", "wait_action", "remove_finish"}
        /\ ~service_get(cur[t].id)

\* the read through the null entry ended the program
C39_Crashed ==
    /\ aborted
    /\ \A t \in Threads : cur[t].fn = "service_remove"
    /\ \E t \in Threads : pc[t] = "return"

\* ------------------------------- claims on the services of one profile
\* the step handles a completion event that names the service with handle n
CompletionOf(n) ==
    \/ stack'.start[n] < stack.start[n]
    \/ \E uuid \in Uuids : stack'.add_char[n][uuid] < stack.add_char[n][uuid]

\* C38: a service-scoped completion event (service started, characteristic
\* added) delivered to a profile with several services changes only the
\* service it names: no other service becomes STARTED, gains a characteristic
\* or has a waiter of its own woken by that event.
C38_OnlyNamedServiceChanges ==
    [][\A n \in Handles :
          CompletionOf(n) =>
              \A h \in Handles \ {n} :
                  /\ services'[h].m_status = services[h].m_status
                  /\ services'[h].m_characteristics_uuid = services[h].m_characteristics_uuid
                  /\ services'[h].m_notification_mgr = services[h].m_notification_mgr]_svc_vars

\* what the code does: a start event changes every service as it would the
\* one it names, and so does a characteristic event for every service that
\* has the uuid marked
C38_EveryServiceHandles ==
    [][\A n \in Handles :
          CompletionOf(n) =>
              \E event \in {"ESP_GATTS_START_EVT", "ESP_GATTS_ADD_CHAR_EVT"},
                 uuid \in Uuids, attr_handle \in Handles \cup {NULLPTR}, ok \in BOOLEAN :
                  \A h \in Handles :
                      services'[h] =
                          service_event_handler_gatts(
                              services[h], event,
                              [service_handle |-> n, char_uuid |-> uuid,
                               attr_handle |-> attr_handle, ok |-> ok])]_svc_vars

\* a service is STARTED although the stack has never reported on its start:
\* the request of its constructor is still in flight and no other can be
C38_StartedByOther ==
    \E h \in Handles :
        /\ services[h].m_status = "STARTED"
        /\ stack.start[h] = MaxInFlight
        /\ \E n \in Handles \ {h} : stack.start[n] = 0

\* a caller waiting for its characteristic is woken with true, and its
\* service holds the characteristic, while its request is still in flight
C38_WokenByOther ==
    \E h \in Handles, t \in Threads, uuid \in Uuids :
        /\ services[h].m_notification_mgr.slot[t] = "true"
        /\ count(services[h].m_characteristics_uuid, uuid) # 0
        /\ stack.add_char[h][uuid] = MaxInFlight
        /\ \E n \in Handles \ {h} :
               services[n].m_characteristics_uuid = services[h].m_characteristics_uuid
====
